---- MODULE Spec2Model ----
(***************************************************************************)
(* Verification model of the compression-detection engine                  *)
(* (backend/python_tools/compression_detector.py).                         *)
(*                                                                         *)
(* Each component of the engine has its own group of variables and its own *)
(* specification; a specification leaves the other groups idle.            *)
(*   SpecBits       the BitStream reader (has_bits, read_bit, read_bits,   *)
(*                  peek_bits)                                             *)
(*   SpecValidate   validate_decompressed_data on drawn outputs            *)
(*   SpecConfidence calculate_confidence on drawn result records           *)
(*   SpecHuffman    _generate_canonical_huffman_codes on drawn lengths     *)
(*   SpecRle        decompress_rle on drawn inputs                         *)
(*   SpecDelta      decompress_delta on the differences of sequences       *)
(*   SpecVlq        decompress_vlq on raw bytes and on encoded integers    *)
(*   SpecLz77       decompress_lz77 on raw bytes and on encoded tokens     *)
(*   SpecRice       decompress_rice on raw bytes and on packed unary codes *)
(*   SpecHuffmanDecode  the four Huffman registry entries on drawn blobs   *)
(*   SpecDpcm       decompress_dpcm with each predictor                    *)
(*   SpecNibble     decompress_nibble_signed on short inputs and long runs *)
(*   SpecWavelet    decompress_wavelet_haar on drawn headers and payloads  *)
(*   SpecEcg        the ECG lead decoders on drawn sample streams          *)
(*   SpecLzw        decompress_lzw on drawn inputs                         *)
(*   SpecDecodeLoop the Rice and Huffman decode loops, one iteration at a  *)
(*                  time, under weak fairness                              *)
(*   SpecProbe      analyze_file over the registry with opaque decoders    *)
(*                                                                         *)
(* Python floats are modelled in fixed point: entropies in units of        *)
(* 1/1024 bit, confidences in hundredths, ratios as exact fractions.       *)
(***************************************************************************)
EXTENDS Integers, Sequences, FiniteSets, TLC

VARIABLES
    bitstream,  \* the BitStream object: data, pos, bit_pos, current_byte
    last,       \* the last BitStream call: [op, n, value]
    before,     \* the BitStream object as it was when the last call began
    reads,      \* the bits returned so far by read_bit, in call order
    call,       \* a call of a pure function: [fn, args]
    ret,        \* what the call returned, Pending before it ran
    data,       \* analyze_file: the blob read from the file
    decoders,   \* analyze_file: what each registry entry did on the blob
    report      \* analyze_file: the AnalysisReport, NoReport before the run

bitVars == <<bitstream, last, before, reads>>
callVars == <<call, ret>>
probeVars == <<data, decoders, report>>

vars == <<bitstream, last, before, reads, call, ret, data, decoders, report>>

\* What the actions of one group leave unchanged: the other groups.
notBits == <<callVars, probeVars>>
notCall == <<bitVars, probeVars>>
notProbe == <<bitVars, callVars>>

\* ------------------------------------------------------------------------
\* Helpers
\* ------------------------------------------------------------------------
Min(a, b) == IF a <= b THEN a ELSE b

\* All sequences over S of length 0..n.
SeqsUpTo(S, n) == UNION {[1..k -> S] : k \in 0..n}

\* ------------------------------------------------------------------------
\* BitStream
\* ------------------------------------------------------------------------
\* Largest blob, in bytes, handed to a BitStream.
MaxBytes == 2
\* Largest count passed to read_bits / peek_bits.
MaxCount == 9
\* read_bit calls allowed past the 8*|data| bits of the blob.
ReadSlack == 1

\* Byte values the blobs are drawn from: 0x00, 0xA5, 0xFF.
BitBytes == {0, 165, 255}

\* BitStream.__init__
BitStream(blob) == [data |-> blob, pos |-> 0, bit_pos |-> 0, current_byte |-> 0]

\* BitStream.has_bits
has_bits(self, count) ==
    (self.pos * 8 + self.bit_pos + count) <= (Len(self.data) * 8)

\* BitStream.read_bit: the object after the call and the bit returned.
read_bit(self) ==
    IF ~has_bits(self, 1)
    THEN [self |-> self, bit |-> 0]
    ELSE LET loaded == IF self.bit_pos = 0
                       THEN [self EXCEPT !.current_byte = self.data[self.pos + 1],
                                         !.pos = self.pos + 1]
                       ELSE self
             bit == (loaded.current_byte \div (2 ^ (7 - loaded.bit_pos))) % 2
         IN [self |-> [loaded EXCEPT !.bit_pos = (loaded.bit_pos + 1) % 8],
             bit |-> bit]

\* BitStream.read_bits: count calls of read_bit, accumulated big-endian.
\* Each call of read_bit is bound as an element of a set, so that it is
\* evaluated once.
RECURSIVE read_bits_from(_, _, _)
read_bits_from(self, count, result) ==
    IF count = 0
    THEN [self |-> self, value |-> result]
    ELSE CHOOSE out \in {read_bits_from(r.self, count - 1, result * 2 + r.bit) :
                             r \in {read_bit(self)}} : TRUE

read_bits(self, count) == read_bits_from(self, count, 0)

\* A peek_bits that restores pos and bit_pos but not the cached byte.
peek_bits_no_cache(self, count) ==
    LET r == read_bits(self, count)
    IN [self |-> [r.self EXCEPT !.pos = self.pos, !.bit_pos = self.bit_pos],
        value |-> r.value]

\* BitStream.peek_bits: read_bits, then the saved cursor put back.
peek_bits(self, count) ==
    LET r == read_bits(self, count)
    IN [self |-> [r.self EXCEPT !.pos = self.pos,
                                !.bit_pos = self.bit_pos,
                                !.current_byte = self.current_byte],
        value |-> r.value]

\* The n bits of value, most significant first.
BitsOf(value, n) == [i \in 1..n |-> (value \div (2 ^ (n - i))) % 2]

\* Bit i (1-based, MSB-first within each byte) of blob B.
BlobBit(B, i) == (B[((i - 1) \div 8) + 1] \div (2 ^ (7 - ((i - 1) % 8)))) % 2

BitsIdle ==
    /\ bitstream = BitStream(<<>>)
    /\ last = [op |-> "idle", n |-> 0, value |-> 0]
    /\ before = BitStream(<<>>)
    /\ reads = <<>>

BitsInit ==
    /\ \E blob \in SeqsUpTo(BitBytes, MaxBytes) : bitstream = BitStream(blob)
    /\ last = [op |-> "init", n |-> 0, value |-> 0]
    /\ before = bitstream
    /\ reads = <<>>

ReadBudget == 8 * Len(bitstream.data) + ReadSlack

ReadBit ==
    /\ Len(reads) + 1 <= ReadBudget
    /\ LET r == read_bit(bitstream)
       IN /\ bitstream' = r.self
          /\ last' = [op |-> "read_bit", n |-> 1, value |-> r.bit]
          /\ reads' = Append(reads, r.bit)
    /\ before' = bitstream
    /\ UNCHANGED notBits

ReadBits ==
    \E n \in 0..MaxCount :
        /\ Len(reads) + n <= ReadBudget
        /\ LET r == read_bits(bitstream, n)
           IN /\ bitstream' = r.self
              /\ last' = [op |-> "read_bits", n |-> n, value |-> r.value]
              /\ reads' = reads \o BitsOf(r.value, n)
        /\ before' = bitstream
        /\ UNCHANGED notBits

PeekBits ==
    \E n \in 0..MaxCount :
        /\ LET r == peek_bits(bitstream, n)
           IN /\ bitstream' = r.self
              /\ last' = [op |-> "peek_bits", n |-> n, value |-> r.value]
        /\ before' = bitstream
        /\ UNCHANGED <<reads, notBits>>

BitsNext == ReadBit \/ ReadBits \/ PeekBits

\* ------------------------------------------------------------------------
\* Pure functions: a call is drawn by Init and run by one action.
\* ------------------------------------------------------------------------
Pending == [done |-> FALSE]
Returned(v) == [done |-> TRUE, value |-> v]

\* Python's None, for the optional string fields.
None == "<None>"

CallIdle ==
    /\ call = [fn |-> "idle", args |-> <<>>]
    /\ ret = Pending

\* n copies of byte v.
Repeat(v, n) == [i \in 1..n |-> v]

\* n bytes cycling through the d values 0..d-1: 0, 1, .., d-1, 0, 1, ..
Cycle(n, d) == [i \in 1..n |-> (i - 1) % d]

\* The byte strings of length 0..n that are such cycles.
Cycles(n) == {<<>>} \cup {Cycle(k, d) : k \in 1..n, d \in 1..n}

\* ------------------------------------------------------------------------
\* calculate_entropy
\* ------------------------------------------------------------------------
\* 1.0 bit in the fixed-point unit of the entropies.
EntropyOne == 2 ^ 10

RECURSIVE FloorLog2(_)
FloorLog2(n) == IF n < 2 THEN 0 ELSE 1 + FloorLog2(n \div 2)

\* The fraction bits of log2 by repeated squaring of a mantissa x in
\* [2^14, 2^15), one bit per squaring.
RECURSIVE Log2Frac(_, _, _)
Log2Frac(x, bits, acc) ==
    IF bits = 0
    THEN acc
    ELSE LET sq == (x * x) \div (2 ^ 14)
         IN IF sq >= 2 ^ 15
            THEN Log2Frac(sq \div 2, bits - 1, acc * 2 + 1)
            ELSE Log2Frac(sq, bits - 1, acc * 2)

\* math.log2(n) for an integer n >= 1, in units of 1/1024.
Log2Compute(n) ==
    LET e == FloorLog2(n)
    IN Log2Frac((n * (2 ^ 14)) \div (2 ^ e), 10, e)

\* The same, tabulated once for the byte counts 1..512 of the model.
Log2Table == [n \in 1..512 |-> Log2Compute(n)]

Log2Fixed(n) == Log2Table[n]

\* How often byte b occurs in bytes.
RECURSIVE CountByte(_, _)
CountByte(bytes, b) ==
    IF bytes = <<>>
    THEN 0
    ELSE (IF Head(bytes) = b THEN 1 ELSE 0) + CountByte(Tail(bytes), b)

RECURSIVE SumOver(_, _, _)
SumOver(S, bytes, n) ==
    IF S = {}
    THEN 0
    ELSE LET b == CHOOSE x \in S : TRUE
             freq == CountByte(bytes, b)
         IN freq * Log2Fixed(freq) + SumOver(S \ {b}, bytes, n)

\* calculate_entropy: -sum p*log2(p) = (n*log2(n) - sum freq*log2(freq)) / n
calculate_entropy(bytes) ==
    IF Len(bytes) = 0
    THEN 0
    ELSE LET n == Len(bytes)
             present == {bytes[i] : i \in 1..n}
         IN (n * Log2Fixed(n) - SumOver(present, bytes, n)) \div n

\* ------------------------------------------------------------------------
\* validate_decompressed_data
\* ------------------------------------------------------------------------
\* A validate_decompressed_data whose compression test is ratio <= 0.5.
validate_decompressed_data_le(bytes, original_size) ==
    IF Len(bytes) = 0
    THEN [valid |-> FALSE, msg |-> "Empty output"]
    ELSE IF original_size > 0 /\ Len(bytes) > 100 * original_size
    THEN [valid |-> FALSE, msg |-> "Suspicious expansion ratio"]
    ELSE IF original_size = 0 \/ 2 * Len(bytes) <= original_size
    THEN [valid |-> FALSE, msg |-> "Suspicious compression ratio"]
    ELSE IF calculate_entropy(bytes) < EntropyOne
    THEN [valid |-> FALSE, msg |-> "Entropy too low"]
    ELSE IF 100 * CountByte(bytes, 0) > 95 * Len(bytes)
    THEN [valid |-> FALSE, msg |-> "Too many null bytes"]
    ELSE [valid |-> TRUE, msg |-> "Validation passed"]

\* validate_decompressed_data: (is_valid, message). ratio is
\* len(data)/original_size, 0 when original_size is 0; the tests on it are
\* cross-multiplied. The message is modelled by its fixed prefix.
validate_decompressed_data(bytes, original_size) ==
    IF Len(bytes) = 0
    THEN [valid |-> FALSE, msg |-> "Empty output"]
    ELSE IF original_size > 0 /\ Len(bytes) > 100 * original_size
    THEN [valid |-> FALSE, msg |-> "Suspicious expansion ratio"]
    ELSE IF original_size = 0 \/ 2 * Len(bytes) < original_size
    THEN [valid |-> FALSE, msg |-> "Suspicious compression ratio"]
    ELSE IF calculate_entropy(bytes) < EntropyOne
    THEN [valid |-> FALSE, msg |-> "Entropy too low"]
    ELSE IF 100 * CountByte(bytes, 0) > 95 * Len(bytes)
    THEN [valid |-> FALSE, msg |-> "Too many null bytes"]
    ELSE [valid |-> TRUE, msg |-> "Validation passed"]

\* Longest short output drawn for the validator.
MaxOutLen == 4
\* Largest original_size drawn for the validator.
MaxOrigSize == 8
\* Outputs just around 100 bytes, to cross the expansion limit of 100x:
\* 100 - LongSpread .. 100 + LongSpread bytes.
LongSpread == 1

\* The long outputs are constant (entropy 0) or cycle through 3 values
\* (entropy about 1.58): the fixed-point entropy is accurate to 2/1024 bit,
\* which decides entropy < 1.0 as the floats do for these and for every
\* short output.
ValidateOutputs ==
    Cycles(MaxOutLen)
        \cup {Cycle(100 + k, d) : k \in 0..LongSpread, d \in {1, 3}}
        \cup {Cycle(100 - k, d) : k \in 0..LongSpread, d \in {1, 3}}

ValidateInit ==
    /\ \E bytes \in ValidateOutputs, original_size \in 0..MaxOrigSize :
           call = [fn |-> "validate_decompressed_data",
                   args |-> <<bytes, original_size>>]
    /\ ret = Pending

Validate ==
    /\ call.fn = "validate_decompressed_data"
    /\ ~ret.done
    /\ ret' = Returned(validate_decompressed_data(call.args[1], call.args[2]))
    /\ UNCHANGED <<call, notCall>>

\* ------------------------------------------------------------------------
\* DecompressionResult and calculate_confidence
\* ------------------------------------------------------------------------
\* compression_ratio = decompressed / original as an exact fraction, 0 (0/1)
\* when original_size is 0.
Ratio(decompressed_size, original_size) ==
    IF original_size > 0
    THEN [num |-> decompressed_size, den |-> original_size]
    ELSE [num |-> 0, den |-> 1]

ZeroRatio == [num |-> 0, den |-> 1]

\* a <= r <= b for a = an/ad and b = bn/bd.
RatioWithin(r, an, ad, bn, bd) ==
    /\ an * r.den <= r.num * ad
    /\ r.num * bd <= bn * r.den

\* A calculate_confidence whose two ratio bands are both added (if, not elif).
calculate_confidence_two_ifs(result) ==
    IF ~result.success
    THEN 0
    ELSE LET entropy_diff == result.entropy_original - result.entropy_decompressed
             s1 == (IF RatioWithin(result.compression_ratio, 3, 2, 10, 1) THEN 30 ELSE 0)
                   + (IF RatioWithin(result.compression_ratio, 6, 5, 15, 1) THEN 15 ELSE 0)
             s2 == IF entropy_diff > EntropyOne THEN 30
                   ELSE IF 2 * entropy_diff > EntropyOne THEN 15
                   ELSE 0
             s3 == IF result.checksum_valid THEN 20 ELSE 0
             s4 == IF 1000 <= result.decompressed_size
                      /\ result.decompressed_size <= 100000000
                   THEN 20 ELSE 0
         IN Min(100, s1 + s2 + s3 + s4)

\* calculate_confidence, in hundredths.
calculate_confidence(result) ==
    IF ~result.success
    THEN 0
    ELSE LET entropy_diff == result.entropy_original - result.entropy_decompressed
             s1 == IF RatioWithin(result.compression_ratio, 3, 2, 10, 1) THEN 30
                   ELSE IF RatioWithin(result.compression_ratio, 6, 5, 15, 1) THEN 15
                   ELSE 0
             s2 == IF entropy_diff > EntropyOne THEN 30
                   ELSE IF 2 * entropy_diff > EntropyOne THEN 15
                   ELSE 0
             s3 == IF result.checksum_valid THEN 20 ELSE 0
             s4 == IF 1000 <= result.decompressed_size
                      /\ result.decompressed_size <= 100000000
                   THEN 20 ELSE 0
         IN Min(100, s1 + s2 + s3 + s4)

\* Result records drawn for calculate_confidence: every field it reads, at
\* and around each threshold.
ConfidenceRatios ==
    {[num |-> n, den |-> 100] :
        n \in {0, 119, 120, 149, 150, 1000, 1001, 1500, 1501}}

ConfidenceEntropies ==
    {0, EntropyOne \div 2, EntropyOne \div 2 + 1, EntropyOne, EntropyOne + 1,
     8 * EntropyOne}

ConfidenceSizes == {0, 999, 1000, 100000000, 100000001}

ConfidenceResults ==
    {[method |-> "m", success |-> s, decompressed_size |-> size,
      original_size |-> 100, compression_ratio |-> r, confidence |-> 0,
      entropy_original |-> e, entropy_decompressed |-> d,
      checksum_valid |-> v, validation_msg |-> "", error |-> None] :
        s \in BOOLEAN, size \in ConfidenceSizes, r \in ConfidenceRatios,
        e \in ConfidenceEntropies, d \in {0, EntropyOne}, v \in BOOLEAN}

ConfidenceInit ==
    /\ \E result \in ConfidenceResults :
           call = [fn |-> "calculate_confidence", args |-> <<result>>]
    /\ ret = Pending

Confidence ==
    /\ call.fn = "calculate_confidence"
    /\ ~ret.done
    /\ ret' = Returned(calculate_confidence(call.args[1]))
    /\ UNCHANGED <<call, notCall>>

\* ------------------------------------------------------------------------
\* test_decompression and analyze_file
\* ------------------------------------------------------------------------
\* What a decompress_func does on the blob: it returns bytes or it raises.
Raises(msg) == [raised |-> TRUE, out |-> <<>>, msg |-> msg]
Returns(bytes) == [raised |-> FALSE, out |-> bytes, msg |-> ""]

\* A test_decompression whose failed outcome leaves error unset.
test_decompression_no_error(blob, method_name, decoded) ==
    LET original_size == Len(blob)
        entropy_original == calculate_entropy(blob)
    IN IF decoded.raised
       THEN [method |-> method_name, success |-> FALSE, decompressed_size |-> 0,
             original_size |-> original_size, compression_ratio |-> ZeroRatio,
             confidence |-> 0, entropy_original |-> entropy_original,
             entropy_decompressed |-> 0, checksum_valid |-> FALSE,
             validation_msg |-> "Decompression failed", error |-> None]
       ELSE LET checked == validate_decompressed_data(decoded.out, original_size)
                result ==
                    [method |-> method_name, success |-> TRUE,
                     decompressed_size |-> Len(decoded.out),
                     original_size |-> original_size,
                     compression_ratio |-> Ratio(Len(decoded.out), original_size),
                     confidence |-> 0, entropy_original |-> entropy_original,
                     entropy_decompressed |-> calculate_entropy(decoded.out),
                     checksum_valid |-> checked.valid,
                     validation_msg |-> checked.msg, error |-> None]
            IN [result EXCEPT !.confidence = calculate_confidence(result)]

\* test_decompression: the DecompressionResult of one registry entry. The
\* try block is the decoder call and everything computed from its output;
\* the except branch builds the failed outcome. decompressed_data, kept only
\* for the file sink, is left out of the record.
test_decompression(blob, method_name, decoded) ==
    LET original_size == Len(blob)
        entropy_original == calculate_entropy(blob)
    IN IF decoded.raised
       THEN [method |-> method_name, success |-> FALSE, decompressed_size |-> 0,
             original_size |-> original_size, compression_ratio |-> ZeroRatio,
             confidence |-> 0, entropy_original |-> entropy_original,
             entropy_decompressed |-> 0, checksum_valid |-> FALSE,
             validation_msg |-> "Decompression failed", error |-> decoded.msg]
       ELSE LET checked == validate_decompressed_data(decoded.out, original_size)
                result ==
                    [method |-> method_name, success |-> TRUE,
                     decompressed_size |-> Len(decoded.out),
                     original_size |-> original_size,
                     compression_ratio |-> Ratio(Len(decoded.out), original_size),
                     confidence |-> 0, entropy_original |-> entropy_original,
                     entropy_decompressed |-> calculate_entropy(decoded.out),
                     checksum_valid |-> checked.valid,
                     validation_msg |-> checked.msg, error |-> None]
            IN [result EXCEPT !.confidence = calculate_confidence(result)]

\* get_algorithms: the registry names in order, without the optional
\* libraries (lz4, zstd, brotli, snappy).
get_algorithms ==
    <<"zlib", "gzip", "bz2", "lzma", "deflate",
      "rle", "delta", "delta_signed", "nibble_signed", "lzw",
      "huffman", "huffman_standard", "huffman_canonical", "huffman_simple",
      "lz77", "dpcm", "dpcm_average", "dpcm_linear", "rice", "vlq",
      "wavelet_haar", "wavelet_haar_int16",
      "ecg_leads", "ecg_leads_3lead", "ecg_leads_8lead">>

\* Registry entries a modelled run probes: the first MaxRegistry of them.
MaxRegistry == 3
\* Longest blob analysed.
MaxBlob == 2
\* Longest output a decoder returns in a modelled run.
MaxProbeOut == 3

algorithms == SubSeq(get_algorithms, 1, Min(MaxRegistry, Len(get_algorithms)))

\* The test loop of analyze_file, stopping at the first failed outcome.
RECURSIVE analyze_loop_abort(_, _, _, _)
analyze_loop_abort(blob, behaviour, i, results) ==
    IF i > Len(algorithms)
    THEN results
    ELSE LET result == test_decompression(blob, algorithms[i], behaviour[i])
         IN IF result.success
            THEN analyze_loop_abort(blob, behaviour, i + 1, Append(results, result))
            ELSE results

\* The test loop of analyze_file: one outcome appended per registry entry.
RECURSIVE analyze_loop(_, _, _, _)
analyze_loop(blob, behaviour, i, results) ==
    IF i > Len(algorithms)
    THEN results
    ELSE analyze_loop(blob, behaviour, i + 1,
             Append(results, test_decompression(blob, algorithms[i], behaviour[i])))

\* a < b for two fractions.
RatioLess(a, b) == a.num * b.den < b.num * a.den

\* (a.confidence, a.compression_ratio) < (b.confidence, b.compression_ratio)
KeyLess(a, b) ==
    \/ a.confidence < b.confidence
    \/ /\ a.confidence = b.confidence
       /\ RatioLess(a.compression_ratio, b.compression_ratio)

\* A max that keeps the last of several greatest elements.
RECURSIVE max_by_key_last(_, _, _)
max_by_key_last(results, i, best) ==
    IF i > Len(results)
    THEN best
    ELSE max_by_key_last(results, i + 1,
             IF ~KeyLess(results[i], best) THEN results[i] ELSE best)

\* Python's max(results, key=...): the first of the greatest elements.
RECURSIVE max_by_key(_, _, _)
max_by_key(results, i, best) ==
    IF i > Len(results)
    THEN best
    ELSE max_by_key(results, i + 1,
             IF KeyLess(best, results[i]) THEN results[i] ELSE best)

IsQualified(r) == r.success /\ r.checksum_valid

\* analyze_file with every successful outcome a candidate, valid or not.
build_report_any_success(blob, results) ==
    LET successful_results == SelectSeq(results, LAMBDA r : r.success)
        found == Len(successful_results) > 0
        best == max_by_key(successful_results, 2, successful_results[1])
    IN [file_size |-> Len(blob),
        total_tests |-> Len(results),
        success_count |-> Len(SelectSeq(results, LAMBDA r : r.success)),
        failed_count |-> Len(SelectSeq(results, LAMBDA r : ~r.success)),
        best_method |-> IF found THEN best.method ELSE None,
        best_ratio |-> IF found THEN best.compression_ratio ELSE ZeroRatio,
        best_confidence |-> IF found THEN best.confidence ELSE 0,
        results |-> results]

\* analyze_file after the loop: best selection and the AnalysisReport.
build_report(blob, results) ==
    LET successful_results == SelectSeq(results, IsQualified)
        found == Len(successful_results) > 0
        best == max_by_key(successful_results, 2, successful_results[1])
    IN [file_size |-> Len(blob),
        total_tests |-> Len(results),
        success_count |-> Len(SelectSeq(results, LAMBDA r : r.success)),
        failed_count |-> Len(SelectSeq(results, LAMBDA r : ~r.success)),
        best_method |-> IF found THEN best.method ELSE None,
        best_ratio |-> IF found THEN best.compression_ratio ELSE ZeroRatio,
        best_confidence |-> IF found THEN best.confidence ELSE 0,
        results |-> results]

\* analyze_file on a blob, given what each decoder does on it.
analyze_file(blob, behaviour) ==
    build_report(blob, analyze_loop(blob, behaviour, 1, <<>>))

DecoderBehaviours ==
    {Raises("decoder error")} \cup {Returns(out) : out \in Cycles(MaxProbeOut)}

ProbeIdle ==
    /\ data = <<>>
    /\ decoders = <<>>
    /\ report = Pending

ProbeInit ==
    /\ data \in Cycles(MaxBlob)
    /\ decoders = <<>>
    /\ report = Pending

AnalyzeFile ==
    /\ ~report.done
    /\ \E behaviour \in [1..Len(algorithms) -> DecoderBehaviours] :
           /\ decoders' = behaviour
           /\ report' = Returned(analyze_file(data, behaviour))
    /\ UNCHANGED <<data, notProbe>>

\* ------------------------------------------------------------------------
\* _generate_canonical_huffman_codes
\* ------------------------------------------------------------------------
\* Symbols in a drawn length vector.
NumSymbols == 5
\* Longest code length drawn.
MaxCodeLen == 3

\* length_groups[length]: the symbols (0-based) of that bit length.
length_group(bit_lengths, length) ==
    {symbol \in 0..(Len(bit_lengths) - 1) : bit_lengths[symbol + 1] = length}

\* The assignment loop: the groups in ascending length; within a group the
\* symbols in ascending order take code, code + 1, ..; after each group
\* code <<= 1.
RECURSIVE assign_codes(_, _, _, _)
assign_codes(bit_lengths, lengths, code, codes) ==
    IF lengths = {}
    THEN codes
    ELSE LET length == CHOOSE l \in lengths : \A m \in lengths : l <= m
             group == length_group(bit_lengths, length)
             rank(symbol) == Cardinality({t \in group : t < symbol})
             assigned == [symbol \in group |->
                             [code |-> code + rank(symbol), length |-> length]]
         IN assign_codes(bit_lengths, lengths \ {length},
                         (code + Cardinality(group)) * 2, codes @@ assigned)

\* _generate_canonical_huffman_codes: symbol -> (code, length) for the
\* symbols of length > 0.
_generate_canonical_huffman_codes(bit_lengths) ==
    assign_codes(bit_lengths,
                 {bit_lengths[i] : i \in 1..Len(bit_lengths)} \ {0}, 0, <<>>)

HuffmanInit ==
    /\ \E bit_lengths \in [1..NumSymbols -> 0..MaxCodeLen] :
           call = [fn |-> "_generate_canonical_huffman_codes",
                   args |-> <<bit_lengths>>]
    /\ ret = Pending

GenerateCodes ==
    /\ call.fn = "_generate_canonical_huffman_codes"
    /\ ~ret.done
    /\ ret' = Returned(_generate_canonical_huffman_codes(call.args[1]))
    /\ UNCHANGED <<call, notCall>>

\* ------------------------------------------------------------------------
\* decompress_rle
\* ------------------------------------------------------------------------
\* What a count byte of 0 stands for.
RunOfZeroCount == 256

\* A decompress_rle without the special case of count 0.
RECURSIVE decompress_rle_plain_from(_, _, _)
decompress_rle_plain_from(bytes, i, out) ==
    IF i < Len(bytes) - 1
    THEN decompress_rle_plain_from(bytes, i + 2,
             out \o Repeat(bytes[i + 2], bytes[i + 1]))
    ELSE out

decompress_rle_plain(bytes) == Returns(decompress_rle_plain_from(bytes, 0, <<>>))

\* The loop of decompress_rle; i is the 0-based index of the code.
RECURSIVE decompress_rle_from(_, _, _)
decompress_rle_from(bytes, i, out) ==
    IF i < Len(bytes) - 1
    THEN LET count == IF bytes[i + 1] = 0 THEN RunOfZeroCount ELSE bytes[i + 1]
             value == bytes[i + 2]
         IN decompress_rle_from(bytes, i + 2, out \o Repeat(value, count))
    ELSE out

\* decompress_rle: it never raises.
decompress_rle(bytes) == Returns(decompress_rle_from(bytes, 0, <<>>))

\* Longest raw input drawn for decompress_rle.
MaxRleLen == 4
\* Longest short sequence S that is RLE-encoded and decoded again.
MaxRleSource == 3
\* The long runs encoded: 256 - RunSpread .. 256 + RunSpread equal bytes.
RunSpread == 1

\* Byte values of the raw inputs (counts and values) and of the sources.
RleBytes == {0, 1, 3, 65}
RleSourceBytes == {65, 66}

\* The length of the run of equal bytes a non-empty S starts with, at most cap.
LeadingRun(S, cap) ==
    CHOOSE k \in 1..Min(Len(S), cap) :
        /\ \A i \in 1..k : S[i] = S[1]
        /\ k = Min(Len(S), cap) \/ S[k + 1] # S[1]

\* An RLE encoder for decompress_rle's format: each maximal run, cut at 256
\* bytes, becomes the pair (count, value) with a run of 256 written as 0.
RECURSIVE RleEncode(_)
RleEncode(S) ==
    IF S = <<>>
    THEN <<>>
    ELSE LET run == LeadingRun(S, RunOfZeroCount)
         IN <<run % RunOfZeroCount, S[1]>>
                \o RleEncode(SubSeq(S, run + 1, Len(S)))

RleSources ==
    SeqsUpTo(RleSourceBytes, MaxRleSource)
        \cup {Repeat(65, RunOfZeroCount + k) \o tail :
                 k \in 0..RunSpread, tail \in SeqsUpTo(RleSourceBytes, 1)}
        \cup {Repeat(65, RunOfZeroCount - k) \o tail :
                 k \in 0..RunSpread, tail \in SeqsUpTo(RleSourceBytes, 1)}

\* A call of decompress_rle either on raw bytes (source = None) or on the
\* encoding of a source sequence.
RleInit ==
    /\ \/ \E bytes \in SeqsUpTo(RleBytes, MaxRleLen) :
              call = [fn |-> "decompress_rle", args |-> <<bytes>>,
                      encoded |-> FALSE, source |-> <<>>]
       \/ \E S \in RleSources :
              call = [fn |-> "decompress_rle", args |-> <<RleEncode(S)>>,
                      encoded |-> TRUE, source |-> S]
    /\ ret = Pending

DecompressRle ==
    /\ call.fn = "decompress_rle"
    /\ ~ret.done
    /\ ret' = Returned(decompress_rle(call.args[1]))
    /\ UNCHANGED <<call, notCall>>

\* ------------------------------------------------------------------------
\* decompress_delta
\* ------------------------------------------------------------------------
\* A decompress_delta whose accumulator is not cut to 8 bits.
RECURSIVE decompress_delta_wide_from(_, _, _, _)
decompress_delta_wide_from(bytes, i, acc, out) ==
    IF i > Len(bytes)
    THEN out
    ELSE LET next == acc + bytes[i]
         IN decompress_delta_wide_from(bytes, i + 1, next, Append(out, next))

\* The loop of decompress_delta: acc = (acc + b) & 0xFF, out.append(acc).
RECURSIVE decompress_delta_from(_, _, _, _)
decompress_delta_from(bytes, i, acc, out) ==
    IF i > Len(bytes)
    THEN out
    ELSE LET next == (acc + bytes[i]) % 256
         IN decompress_delta_from(bytes, i + 1, next, Append(out, next))

\* decompress_delta: it never raises.
decompress_delta(bytes) == Returns(decompress_delta_from(bytes, 1, 0, <<>>))

\* Longest sequence S whose differences are decoded.
MaxDeltaLen == 3

\* Byte values of the sequences S.
DeltaBytes == {0, 1, 128, 255}

\* The byte-wise differences of S modulo 256, the first against 0.
DeltaEncode(S) ==
    [i \in 1..Len(S) |-> ((IF i = 1 THEN S[1] ELSE S[i] - S[i - 1]) + 256) % 256]

\* A call of decompress_delta on the differences of a sequence S.
DeltaInit ==
    /\ \E S \in SeqsUpTo(DeltaBytes, MaxDeltaLen) :
           call = [fn |-> "decompress_delta", args |-> <<DeltaEncode(S)>>,
                   source |-> S]
    /\ ret = Pending

DecompressDelta ==
    /\ call.fn = "decompress_delta"
    /\ ~ret.done
    /\ ret' = Returned(decompress_delta(call.args[1]))
    /\ UNCHANGED <<call, notCall>>

\* ------------------------------------------------------------------------
\* decompress_vlq
\* ------------------------------------------------------------------------
\* Python's unbounded int `value`, which reaches 35 bits here, kept as two
\* limbs that fit TLC's 32-bit integers: value = lo + hi * 2^28, lo < 2^28.
BigInt(lo, hi) == [lo |-> lo, hi |-> hi]

\* value | (bits << shift) for 7 bits that lie above every bit set so far
\* and within one limb (shift is a multiple of 7, 28 the limb width).
or_shifted(value, bits, shift) ==
    IF shift < 28
    THEN [value EXCEPT !.lo = value.lo + bits * (2 ^ shift)]
    ELSE [value EXCEPT !.hi = value.hi + bits * (2 ^ (shift - 28))]

\* value >= 2^32, where int.to_bytes(4, ..) raises OverflowError.
overflows_4_bytes(value) == value.hi >= 16

\* int.to_bytes(4, 'little', signed=False) of a value below 2^32.
to_bytes_4_little(value) ==
    <<value.lo % 256, (value.lo \div (2 ^ 8)) % 256,
      (value.lo \div (2 ^ 16)) % 256, (value.lo \div (2 ^ 24)) + 16 * value.hi>>

\* An inner loop that advances shift by 8 for each 7-bit group.
RECURSIVE vlq_group_shift8(_, _, _, _)
vlq_group_shift8(bytes, pos, value, shift) ==
    IF ~(pos < Len(bytes))
    THEN [pos |-> pos, value |-> value]
    ELSE LET byte == bytes[pos + 1]
             value2 == [value EXCEPT !.lo = value.lo + (byte % 128) * (2 ^ shift)]
             shift2 == shift + 8
         IN IF byte \div 128 = 0 \/ shift2 > 28
            THEN [pos |-> pos + 1, value |-> value2]
            ELSE vlq_group_shift8(bytes, pos + 1, value2, shift2)

\* The inner loop of decompress_vlq, from the 0-based position pos: the
\* position after the group and the value accumulated.
RECURSIVE vlq_group(_, _, _, _)
vlq_group(bytes, pos, value, shift) ==
    IF ~(pos < Len(bytes))
    THEN [pos |-> pos, value |-> value]
    ELSE LET byte == bytes[pos + 1]
             value2 == or_shifted(value, byte % 128, shift)
             shift2 == shift + 7
         IN IF byte \div 128 = 0 \/ shift2 > 28
            THEN [pos |-> pos + 1, value |-> value2]
            ELSE vlq_group(bytes, pos + 1, value2, shift2)

\* The outer loop of decompress_vlq: each group's value appended as 4
\* bytes, unless to_bytes raises.
RECURSIVE decompress_vlq_from(_, _, _)
decompress_vlq_from(bytes, pos, result) ==
    IF ~(pos < Len(bytes))
    THEN Returns(result)
    ELSE LET group == vlq_group(bytes, pos, BigInt(0, 0), 0)
         IN IF overflows_4_bytes(group.value)
            THEN Raises("int too big to convert")
            ELSE decompress_vlq_from(bytes, group.pos,
                                     result \o to_bytes_4_little(group.value))

decompress_vlq(bytes) == decompress_vlq_from(bytes, 0, <<>>)

\* Longest raw input drawn for decompress_vlq.
MaxVlqLen == 5
\* Most integers encoded one after the other.
MaxVlqValues == 2

\* Byte values of the raw inputs.
VlqBytes == {0, 16, 128, 255}
\* The integers encoded: the ends of the 1-, 2-, 3- and 4-byte ranges.
VlqValues ==
    {0, 1, 127, 128, 300, 2 ^ 14 - 1, 2 ^ 14, 2 ^ 21 - 1, 2 ^ 21, 2 ^ 28 - 1}

\* The VLQ encoding of n: 7-bit groups, least significant first, the
\* continuation bit on every byte but the last.
RECURSIVE VlqEncode(_)
VlqEncode(n) ==
    IF n < 128 THEN <<n>> ELSE <<128 + (n % 128)>> \o VlqEncode(n \div 128)

RECURSIVE VlqEncodeAll(_)
VlqEncodeAll(ns) ==
    IF ns = <<>> THEN <<>> ELSE VlqEncode(Head(ns)) \o VlqEncodeAll(Tail(ns))

\* A call of decompress_vlq either on raw bytes or on the encodings of a
\* sequence of integers.
VlqInit ==
    /\ \/ \E bytes \in SeqsUpTo(VlqBytes, MaxVlqLen) :
              call = [fn |-> "decompress_vlq", args |-> <<bytes>>,
                      encoded |-> FALSE, source |-> <<>>]
       \/ \E ns \in SeqsUpTo(VlqValues, MaxVlqValues) :
              call = [fn |-> "decompress_vlq", args |-> <<VlqEncodeAll(ns)>>,
                      encoded |-> TRUE, source |-> ns]
    /\ ret = Pending

DecompressVlq ==
    /\ call.fn = "decompress_vlq"
    /\ ~ret.done
    /\ ret' = Returned(decompress_vlq(call.args[1]))
    /\ UNCHANGED <<call, notCall>>

\* ------------------------------------------------------------------------
\* decompress_lz77
\* ------------------------------------------------------------------------
\* A copy that takes the bytes from the history as it was before the copy:
\* it stops where the history ended.
lz77_copy_snapshot(result, start_pos, n) ==
    result \o SubSeq(result, start_pos + 1, Min(start_pos + n, Len(result)))

\* The copy loop `for _ in range(length)` run for n iterations from the
\* 0-based start_pos: an iteration appends result[start_pos] and advances
\* start_pos while start_pos < len(result); once that fails the loop is
\* left. The n iterations are run as two halves, one after the other, to
\* keep the evaluation shallow.
RECURSIVE lz77_copy(_, _, _)
lz77_copy(result, start_pos, n) ==
    IF n = 0 \/ ~(start_pos < Len(result))
    THEN result
    ELSE IF n = 1
         THEN Append(result, result[start_pos + 1])
         ELSE LET half == lz77_copy(result, start_pos, n \div 2)
              IN lz77_copy(half, start_pos + (n \div 2), n - (n \div 2))

\* The loop `for i in range(8)` over the bits of one flag byte, from bit i
\* with the input at the 0-based pos: the position and the output when the
\* loop is left.
RECURSIVE lz77_frame(_, _, _, _, _)
lz77_frame(bytes, flag, i, pos, result) ==
    IF i = 8 \/ pos >= Len(bytes)
    THEN [pos |-> pos, result |-> result]
    ELSE IF (flag \div (2 ^ (7 - i))) % 2 = 1
         THEN lz77_frame(bytes, flag, i + 1, pos + 1,
                         Append(result, bytes[pos + 1]))
         ELSE IF pos + 2 >= Len(bytes)
              THEN [pos |-> pos, result |-> result]
              ELSE LET offset == bytes[pos + 1] * 256 + bytes[pos + 2]
                       length == bytes[pos + 3]
                   IN IF offset = 0 \/ offset > Len(result)
                      THEN [pos |-> pos + 3, result |-> result]
                      ELSE lz77_frame(bytes, flag, i + 1, pos + 3,
                               lz77_copy(result, Len(result) - offset, length))

\* The loop `while pos < len(data)`: a flag byte, then its frame.
RECURSIVE decompress_lz77_from(_, _, _)
decompress_lz77_from(bytes, pos, result) ==
    IF pos < Len(bytes)
    THEN LET frame == lz77_frame(bytes, bytes[pos + 1], 0, pos + 1, result)
         IN decompress_lz77_from(bytes, frame.pos, frame.result)
    ELSE result

\* decompress_lz77: it never raises.
decompress_lz77(bytes) == Returns(decompress_lz77_from(bytes, 0, <<>>))

\* Most literals a drawn token sequence starts with.
MaxLzLiterals == 8
\* Most further tokens after the leading literals.
MaxLzTail == 2

Literal(byte) == [literal |-> TRUE, byte |-> byte, offset |-> 0, length |-> 0]
Reference(offset, length) ==
    [literal |-> FALSE, byte |-> 0, offset |-> offset, length |-> length]

\* The tokens that follow the leading literals 'A', 'B', ..
LzTailTokens ==
    {Literal(90), Reference(1, 0), Reference(1, 3), Reference(2, 5),
     Reference(4, 4), Reference(1, 255), Reference(256, 2)}

\* What a token sequence stands for: a literal adds its byte, a reference
\* adds length bytes, each the byte offset positions before it; ok is false
\* when a reference has offset 0 or reaches before the start of the output.
RECURSIVE LzExpand(_, _)
LzExpand(tokens, out) ==
    IF tokens = <<>>
    THEN [ok |-> TRUE, out |-> out]
    ELSE LET t == Head(tokens)
             L == Len(out)
         IN IF t.literal
            THEN LzExpand(Tail(tokens), Append(out, t.byte))
            ELSE IF t.offset = 0 \/ t.offset > L
                 THEN [ok |-> FALSE, out |-> out]
                 ELSE LzExpand(Tail(tokens),
                          [j \in 1..(L + t.length) |->
                              IF j <= L
                              THEN out[j]
                              ELSE out[L - t.offset + 1 + ((j - L - 1) % t.offset)]])

\* The input bytes of a token: the literal byte, or the 16-bit big-endian
\* offset and the length.
LzTokenBytes(t) ==
    IF t.literal THEN <<t.byte>> ELSE <<t.offset \div 256, t.offset % 256, t.length>>

RECURSIVE LzTokensBytes(_)
LzTokensBytes(tokens) ==
    IF tokens = <<>>
    THEN <<>>
    ELSE LzTokenBytes(Head(tokens)) \o LzTokensBytes(Tail(tokens))

\* The flag byte of a frame of up to 8 tokens: bit 7 - i is 1 when token i
\* (0-based) is a literal.
RECURSIVE LzFlag(_, _)
LzFlag(tokens, i) ==
    IF i > Len(tokens)
    THEN 0
    ELSE (IF tokens[i].literal THEN 2 ^ (8 - i) ELSE 0) + LzFlag(tokens, i + 1)

\* An encoder for decompress_lz77's format: frames of a flag byte and up to
\* 8 tokens.
RECURSIVE Lz77Encode(_)
Lz77Encode(tokens) ==
    IF tokens = <<>>
    THEN <<>>
    ELSE LET n == Min(8, Len(tokens))
             frame == SubSeq(tokens, 1, n)
         IN <<LzFlag(frame, 1)>> \o LzTokensBytes(frame)
                \o Lz77Encode(SubSeq(tokens, n + 1, Len(tokens)))

\* Token sequences whose references are all valid: k literals 'A', 'B', ..
\* and then up to MaxLzTail more tokens.
LzSources ==
    {tokens \in {[i \in 1..k |-> Literal(64 + i)] \o tail :
                    k \in 0..MaxLzLiterals,
                    tail \in SeqsUpTo(LzTailTokens, MaxLzTail)} :
        LzExpand(tokens, <<>>).ok}

\* Longest raw input drawn for decompress_lz77.
MaxLzRaw == 4
\* Byte values of the raw inputs.
LzRawBytes == {0, 1, 65, 128}

\* The tokens that follow a reference that is not valid.
LzAfterInvalid == {Literal(90), Literal(255), Reference(1, 3)}

\* Token sequences with one reference that is not valid, its offset being 0
\* or one more than the output has bytes: k literals 'A', 'B', .., that
\* reference, and then up to MaxLzTail more tokens.
LzInvalidSources ==
    UNION {{[i \in 1..k |-> Literal(64 + i)] \o <<Reference(offset, 2)>> \o tail :
                offset \in {0, k + 1},
                tail \in SeqsUpTo(LzAfterInvalid, MaxLzTail)} :
              k \in 0..MaxLzLiterals}

\* A call of decompress_lz77 on raw bytes, on the encoding of a token
\* sequence, or on the bytes an encoder gives for a sequence with a
\* reference that is not valid.
Lz77Init ==
    /\ \/ \E bytes \in SeqsUpTo(LzRawBytes, MaxLzRaw) :
              call = [fn |-> "decompress_lz77", args |-> <<bytes>>,
                      encoded |-> FALSE, source |-> <<>>]
       \/ \E tokens \in LzSources :
              call = [fn |-> "decompress_lz77", args |-> <<Lz77Encode(tokens)>>,
                      encoded |-> TRUE, source |-> tokens]
       \/ \E tokens \in LzInvalidSources :
              call = [fn |-> "decompress_lz77", args |-> <<Lz77Encode(tokens)>>,
                      encoded |-> FALSE, source |-> tokens]
    /\ ret = Pending

DecompressLz77 ==
    /\ call.fn = "decompress_lz77"
    /\ ~ret.done
    /\ ret' = Returned(decompress_lz77(call.args[1]))
    /\ UNCHANGED <<call, notCall>>

\* ------------------------------------------------------------------------
\* decompress_rice
\* ------------------------------------------------------------------------
\* int.bit_length() of n >= 0.
RECURSIVE bit_length(_)
bit_length(n) == IF n = 0 THEN 0 ELSE 1 + bit_length(n \div 2)

\* The unary loop `while bitstream.read_bit() == 1` run for at most n
\* iterations: a 1 bit adds one to unary_count and the loop is left once
\* unary_count > 255; a 0 bit (also the 0 that read_bit returns when no bit
\* is left) ends it. The iterations are run as two halves, one after the
\* other, to keep the evaluation shallow.
RECURSIVE rice_unary(_, _)
rice_unary(state, n) ==
    IF n = 0 \/ state.stopped
    THEN state
    ELSE IF n = 1
         THEN LET r == read_bit(state.self)
                  count == state.unary_count + r.bit
              IN [self |-> r.self, unary_count |-> count,
                  stopped |-> r.bit = 0 \/ count > 255]
         ELSE LET half == rice_unary(state, n \div 2)
              IN rice_unary(half, n - (n \div 2))

\* One iteration of `while bitstream.has_bits()`: the unary part (which
\* reads at most every bit of the blob and one more), the k-bit binary part
\* when has_bits(k), and the value appended as two bytes.
rice_value(state, m) ==
    LET unary == rice_unary([self |-> state.self, unary_count |-> 0,
                             stopped |-> FALSE],
                            8 * Len(state.self.data) + 1)
        k == bit_length(m - 1)
        binary == IF k > 0 /\ has_bits(unary.self, k)
                  THEN read_bits(unary.self, k)
                  ELSE [self |-> unary.self, value |-> 0]
        value == unary.unary_count * m + binary.value
    IN [self |-> binary.self,
        result |-> state.result \o <<value % 256, (value \div 256) % 256>>]

\* The loop `while bitstream.has_bits()` run for at most n iterations, as
\* two halves one after the other.
RECURSIVE rice_values(_, _, _)
rice_values(state, m, n) ==
    IF n = 0 \/ ~has_bits(state.self, 1)
    THEN state
    ELSE IF n = 1
         THEN rice_value(state, m)
         ELSE LET half == rice_values(state, m, n \div 2)
              IN rice_values(half, m, n - (n \div 2))

\* decompress_rice: every iteration of the outer loop consumes a bit, so it
\* runs at most 8*|data| times; it never raises.
decompress_rice(bytes, m) ==
    Returns(rice_values([self |-> BitStream(bytes), result |-> <<>>], m,
                        8 * Len(bytes)).result)

\* Longest short raw input drawn for decompress_rice.
MaxRiceLen == 2
\* Most unary codes packed into an input.
MaxRiceCodes == 3
\* The long inputs: 32 .. 32 + RiceLongSpread bytes 0xFF, then a short tail.
RiceLongSpread == 1
\* The largest Rice parameter m drawn.
MaxRiceParam == 4

\* Byte values of the raw inputs and the unary counts packed.
RiceBytes == {0, 170, 255}
RiceCounts == {0, 1, 2, 3, 7}

\* The bits of the unary codes of the counts cs: c ones and a zero each.
RECURSIVE UnaryBits(_)
UnaryBits(cs) ==
    IF cs = <<>>
    THEN <<>>
    ELSE Repeat(1, Head(cs)) \o <<0>> \o UnaryBits(Tail(cs))

\* The byte whose bits, MSB first, are bits[i .. i + 7].
ByteAt(bits, i) ==
    128 * bits[i] + 64 * bits[i + 1] + 32 * bits[i + 2] + 16 * bits[i + 3]
        + 8 * bits[i + 4] + 4 * bits[i + 5] + 2 * bits[i + 6] + bits[i + 7]

\* A whole number of bytes packed MSB-first.
PackBits(bits) == [j \in 1..(Len(bits) \div 8) |-> ByteAt(bits, 8 * j - 7)]

\* Sequences of counts whose unary codes fill a whole number of bytes; also
\* the single count 255 (32 bytes).
RiceSources ==
    {cs \in SeqsUpTo(RiceCounts, MaxRiceCodes) \cup {<<255>>} :
        cs # <<>> /\ Len(UnaryBits(cs)) % 8 = 0}

\* A call of decompress_rice on raw bytes with a parameter m, or with m = 1
\* on the packed unary codes of a sequence of counts.
RiceInit ==
    /\ \/ \E bytes \in SeqsUpTo(RiceBytes, MaxRiceLen), m \in 1..MaxRiceParam :
              call = [fn |-> "decompress_rice", args |-> <<bytes, m>>,
                      encoded |-> FALSE, source |-> <<>>]
       \/ \E n \in 0..RiceLongSpread, tail \in SeqsUpTo(RiceBytes, 1),
             m \in 1..MaxRiceParam :
              call = [fn |-> "decompress_rice",
                      args |-> <<Repeat(255, 32 + n) \o tail, m>>,
                      encoded |-> FALSE, source |-> <<>>]
       \/ \E cs \in RiceSources :
              call = [fn |-> "decompress_rice",
                      args |-> <<PackBits(UnaryBits(cs)), 1>>,
                      encoded |-> TRUE, source |-> cs]
    /\ ret = Pending

DecompressRice ==
    /\ call.fn = "decompress_rice"
    /\ ~ret.done
    /\ ret' = Returned(decompress_rice(call.args[1], call.args[2]))
    /\ UNCHANGED <<call, notCall>>

\* ------------------------------------------------------------------------
\* Huffman decoders
\* ------------------------------------------------------------------------
\* Python's data[a:b] (0-based, b exclusive, clamped to the sequence).
Slice(bytes, a, b) == SubSeq(bytes, a + 1, Min(b, Len(bytes)))

\* codes.items() of a table made by _generate_canonical_huffman_codes: the
\* entries in insertion order, which is by ascending (length, symbol).
huffman_items(codes) ==
    LET Before(s, t) ==
            \/ codes[s].length < codes[t].length
            \/ codes[s].length = codes[t].length /\ s < t
        Rank(t) == Cardinality({s \in DOMAIN codes : Before(s, t)}) + 1
    IN [r \in 1..Cardinality(DOMAIN codes) |->
           LET t == CHOOSE s \in DOMAIN codes : Rank(s) = r
           IN [symbol |-> t, code |-> codes[t].code, length |-> codes[t].length]]

\* The `for symbol, (code, length) in codes.items()` search: the index of
\* the first entry whose code equals peek_bits(length), 0 when none does.
first_match(items, self) ==
    LET matching == {i \in 1..Len(items) :
                        peek_bits(self, items[i].length).value = items[i].code}
    IN IF matching = {} THEN 0 ELSE CHOOSE i \in matching : \A j \in matching : i <= j

\* The symbol-matching loop `while bitstream.has_bits()` run for at most n
\* iterations, as two halves one after the other: a match reads the code's
\* bits and appends its symbol, no match leaves the loop.
RECURSIVE huffman_match_loop(_, _, _)
huffman_match_loop(items, state, n) ==
    IF n = 0 \/ state.stopped \/ ~has_bits(state.self, 1)
    THEN state
    ELSE IF n = 1
         THEN LET i == first_match(items, state.self)
              IN IF i = 0
                 THEN [state EXCEPT !.stopped = TRUE]
                 ELSE [self |-> read_bits(state.self, items[i].length).self,
                       result |-> Append(state.result, items[i].symbol),
                       stopped |-> FALSE]
         ELSE LET half == huffman_match_loop(items, state, n \div 2)
              IN huffman_match_loop(items, half, n - (n \div 2))

\* The decoding of a bitstream blob with a table: a match consumes a bit at
\* least, so the loop runs at most 8*|blob| times.
huffman_decode(items, blob) ==
    huffman_match_loop(items,
                       [self |-> BitStream(blob), result |-> <<>>, stopped |-> FALSE],
                       8 * Len(blob)).result

\* A standard decoder that asks for 16 bytes.
_decompress_huffman_standard_16(bytes) ==
    IF Len(bytes) < 16
    THEN Raises("Too short for standard Huffman")
    ELSE LET table_size == IF bytes[1] = 0 THEN Min(256, Len(bytes) - 1) ELSE bytes[1]
             code_lengths == Slice(bytes, 1, table_size + 1)
             padded == code_lengths \o Repeat(0, 256 - Len(code_lengths))
             items == huffman_items(_generate_canonical_huffman_codes(padded))
         IN Returns(huffman_decode(SelectSeq(items, LAMBDA e : e.length # 0),
                                   Slice(bytes, table_size + 1, Len(bytes))))

\* _decompress_huffman_standard: table size, code lengths padded with zeros
\* to 256, then the bitstream; entries of length 0 are passed over.
_decompress_huffman_standard(bytes) ==
    IF Len(bytes) < 4
    THEN Raises("Too short for standard Huffman")
    ELSE LET table_size == IF bytes[1] = 0 THEN Min(256, Len(bytes) - 1) ELSE bytes[1]
             code_lengths == Slice(bytes, 1, table_size + 1)
             padded == code_lengths \o Repeat(0, 256 - Len(code_lengths))
             items == huffman_items(_generate_canonical_huffman_codes(padded))
         IN Returns(huffman_decode(SelectSeq(items, LAMBDA e : e.length # 0),
                                   Slice(bytes, table_size + 1, Len(bytes))))

\* A canonical decoder whose bitstream starts at the last byte of the table.
_decompress_huffman_canonical_stream_in_table(bytes) ==
    IF Len(bytes) < 2
    THEN Raises("Too short for canonical Huffman")
    ELSE LET count0 == IF bytes[1] = 0 THEN Min(256, Len(bytes) - 1) ELSE bytes[1]
             symbol_count == IF count0 > 256 THEN 256 ELSE count0
             bit_lengths == Slice(bytes, 1, symbol_count + 1)
             items == huffman_items(_generate_canonical_huffman_codes(bit_lengths))
         IN Returns(huffman_decode(items, Slice(bytes, symbol_count, Len(bytes))))

\* _decompress_huffman_canonical: symbol count, bit lengths, bitstream.
_decompress_huffman_canonical(bytes) ==
    IF Len(bytes) < 2
    THEN Raises("Too short for canonical Huffman")
    ELSE LET count0 == IF bytes[1] = 0 THEN Min(256, Len(bytes) - 1) ELSE bytes[1]
             symbol_count == IF count0 > 256 THEN 256 ELSE count0
             bit_lengths == Slice(bytes, 1, symbol_count + 1)
             items == huffman_items(_generate_canonical_huffman_codes(bit_lengths))
         IN Returns(huffman_decode(items, Slice(bytes, symbol_count + 1, Len(bytes))))

\* The table loop `for symbol in range(256)` of the simple format run for n
\* symbols from `symbol`, as two halves one after the other: a length byte,
\* then for a length in 1..24 the code in ceil(length / 8) bytes, big-endian;
\* the loop is left when the input ends.
RECURSIVE simple_table(_, _, _, _)
simple_table(bytes, state, symbol, n) ==
    IF n = 0 \/ state.stopped
    THEN state
    ELSE IF n = 1
         THEN IF state.pos >= Len(bytes)
              THEN [state EXCEPT !.stopped = TRUE]
              ELSE LET bit_len == bytes[state.pos + 1]
                       pos == state.pos + 1
                       byte_count == (bit_len + 7) \div 8
                       code == IF byte_count = 1 THEN bytes[pos + 1]
                               ELSE IF byte_count = 2
                                    THEN bytes[pos + 1] * 256 + bytes[pos + 2]
                                    ELSE (bytes[pos + 1] * 256 + bytes[pos + 2]) * 256
                                             + bytes[pos + 3]
                   IN IF bit_len = 0 \/ bit_len > 24
                      THEN [state EXCEPT !.pos = pos]
                      ELSE IF pos + byte_count > Len(bytes)
                           THEN [state EXCEPT !.pos = pos, !.stopped = TRUE]
                           ELSE [pos |-> pos + byte_count,
                                 items |-> Append(state.items,
                                               [symbol |-> symbol, code |-> code,
                                                length |-> bit_len]),
                                 stopped |-> FALSE]
         ELSE LET half == simple_table(bytes, state, symbol, n \div 2)
              IN simple_table(bytes, half, symbol + (n \div 2), n - (n \div 2))

\* _decompress_huffman_simple: the 256-entry table, then the bitstream.
_decompress_huffman_simple(bytes) ==
    IF Len(bytes) < 512
    THEN Raises("Too short for simple Huffman")
    ELSE LET table == simple_table(bytes,
                          [pos |-> 0, items |-> <<>>, stopped |-> FALSE], 0, 256)
         IN IF table.items = <<>>
            THEN Raises("No valid Huffman codes found")
            ELSE Returns(huffman_decode(table.items,
                                        Slice(bytes, table.pos, Len(bytes))))

\* decompress_huffman: the formats tried in turn; the first that returns a
\* non-empty output wins, a format that raises is passed over.
decompress_huffman(bytes) ==
    IF Len(bytes) < 16
    THEN Raises("Data too short for Huffman compression")
    ELSE LET Good(r) == ~r.raised /\ Len(r.out) > 0
             canonical == _decompress_huffman_canonical(bytes)
             standard == _decompress_huffman_standard(bytes)
             simple == _decompress_huffman_simple(bytes)
         IN IF Good(canonical) THEN canonical
            ELSE IF Good(standard) THEN standard
            ELSE IF Good(simple) THEN simple
            ELSE Raises("No valid Huffman format found")

\* Longest short blob drawn for the Huffman decoders.
MaxHuffLen == 17
\* Longest drawn header that precedes the repeated body byte.
MaxHuffHeader == 2
\* The long blobs: 512 - HuffLongSpread .. 512 + HuffLongSpread equal bytes.
HuffLongSpread == 1

\* Byte values of the headers and of the repeated byte that follows. Every
\* byte may be read as a code length, so the values are small: a code of
\* that many bits is peeked at each step of the decoding.
HuffHeaderBytes == {0, 1, 2, 3}
HuffBodyBytes == {0, 2, 5}

HuffBlobs ==
    {header \o Repeat(b, n - Len(header)) :
         n \in 0..MaxHuffLen,
         header \in SeqsUpTo(HuffHeaderBytes, MaxHuffHeader),
         b \in HuffBodyBytes}
      \cup {Repeat(b, 512 + d) : d \in (-HuffLongSpread)..HuffLongSpread,
                                b \in HuffBodyBytes \cup {1}}

\* The registry entries of the Huffman decoders.
HuffmanEntries == {"huffman", "huffman_standard", "huffman_canonical", "huffman_simple"}

\* A call of one of the Huffman registry entries on a blob.
HuffmanDecodeInit ==
    /\ \E fn \in HuffmanEntries, bytes \in HuffBlobs :
           call = [fn |-> fn, args |-> <<bytes>>]
    /\ ret = Pending

DecompressHuffman ==
    /\ call.fn = "huffman"
    /\ ~ret.done
    /\ ret' = Returned(decompress_huffman(call.args[1]))
    /\ UNCHANGED <<call, notCall>>

DecompressHuffmanStandard ==
    /\ call.fn = "huffman_standard"
    /\ ~ret.done
    /\ ret' = Returned(_decompress_huffman_standard(call.args[1]))
    /\ UNCHANGED <<call, notCall>>

DecompressHuffmanCanonical ==
    /\ call.fn = "huffman_canonical"
    /\ ~ret.done
    /\ ret' = Returned(_decompress_huffman_canonical(call.args[1]))
    /\ UNCHANGED <<call, notCall>>

DecompressHuffmanSimple ==
    /\ call.fn = "huffman_simple"
    /\ ~ret.done
    /\ ret' = Returned(_decompress_huffman_simple(call.args[1]))
    /\ UNCHANGED <<call, notCall>>

HuffmanDecodeNext ==
    \/ DecompressHuffman
    \/ DecompressHuffmanStandard
    \/ DecompressHuffmanCanonical
    \/ DecompressHuffmanSimple

\* ------------------------------------------------------------------------
\* decompress_dpcm
\* ------------------------------------------------------------------------
\* max(0, min(255, current))
clamp_byte(current) == IF current > 255 THEN 255 ELSE IF current < 0 THEN 0 ELSE current

\* A loop that cuts the sum to 8 bits where the code clamps it.
RECURSIVE dpcm_wrapping_from(_, _, _, _, _)
dpcm_wrapping_from(bytes, predictor, i, result, prev_value) ==
    IF i >= Len(bytes)
    THEN result
    ELSE LET delta == bytes[i + 1]
             predicted ==
                 CASE predictor = "average" ->
                          IF i >= 2 THEN (result[i] + result[i - 1]) \div 2 ELSE result[i]
                   [] predictor = "linear" ->
                          IF i >= 2 THEN 2 * result[i] - result[i - 1] ELSE result[i]
                   [] OTHER -> prev_value
             current == (predicted + delta) % 256
         IN dpcm_wrapping_from(bytes, predictor, i + 1, Append(result, current), current)

\* The loop `for i in range(1, len(data))` of decompress_dpcm; result[i-1]
\* and result[i-2] of the code are result[i] and result[i - 1] here.
RECURSIVE dpcm_from(_, _, _, _, _)
dpcm_from(bytes, predictor, i, result, prev_value) ==
    IF i >= Len(bytes)
    THEN result
    ELSE LET delta == bytes[i + 1]
             predicted ==
                 CASE predictor = "previous" -> prev_value
                   [] predictor = "average" ->
                          IF i >= 2 THEN (result[i] + result[i - 1]) \div 2 ELSE result[i]
                   [] predictor = "linear" ->
                          IF i >= 2 THEN 2 * result[i] - result[i - 1] ELSE result[i]
                   [] OTHER -> prev_value
             current == clamp_byte(predicted + delta)
         IN dpcm_from(bytes, predictor, i + 1, Append(result, current), current)

\* decompress_dpcm: the first byte is the initial value; empty data raises.
decompress_dpcm(bytes, predictor) ==
    IF Len(bytes) = 0
    THEN Raises("Empty data for DPCM")
    ELSE Returns(dpcm_from(bytes, predictor, 1, <<bytes[1]>>, bytes[1]))

\* Longest input drawn for decompress_dpcm.
MaxDpcmLen == 4

\* Byte values of the inputs.
DpcmBytes == {0, 1, 100, 200, 255}
\* The predictors of the registry entries dpcm, dpcm_average, dpcm_linear,
\* and one the function does not know.
DpcmPredictors == {"previous", "average", "linear", "unknown"}

DpcmInit ==
    /\ \E bytes \in SeqsUpTo(DpcmBytes, MaxDpcmLen), predictor \in DpcmPredictors :
           call = [fn |-> "decompress_dpcm", args |-> <<bytes, predictor>>]
    /\ ret = Pending

DecompressDpcm ==
    /\ call.fn = "decompress_dpcm"
    /\ ~ret.done
    /\ ret' = Returned(decompress_dpcm(call.args[1], call.args[2]))
    /\ UNCHANGED <<call, notCall>>

\* ------------------------------------------------------------------------
\* decompress_nibble_signed
\* ------------------------------------------------------------------------
\* The values of a signed 16-bit sample.
Int16 == (-(2 ^ 15))..(2 ^ 15 - 1)

\* The delta of a nibble: 0..7 as they are, 8..15 as -8..-1.
nibble_delta(nibble) == IF nibble <= 7 THEN nibble ELSE nibble - 16

\* A current_value that wraps around in 16 bits where the code clamps it.
wrap_int16(current_value) == ((current_value + 2 ^ 15) % 2 ^ 16) - 2 ^ 15

\* The clamp of current_value to the signed 16-bit range.
clamp_int16(current_value) ==
    IF current_value > 32767
    THEN 32767
    ELSE IF current_value < -32768 THEN -32768 ELSE current_value

\* One nibble: add its delta, clamp, append the value as two bytes, low
\* byte first (a negative value as value + 65536).
nibble_step(state, nibble) ==
    LET current_value == clamp_int16(state.current_value + nibble_delta(nibble))
        unsigned_val == IF current_value >= 0 THEN current_value
                        ELSE current_value + 65536
    IN [current_value |-> current_value,
        out |-> state.out \o <<unsigned_val % 256, (unsigned_val \div 256) % 256>>]

\* The loop `for byte_val in data` run for n bytes from index lo (0-based),
\* as two halves one after the other; each byte gives its high nibble, then
\* its low nibble. current_value is a signed 16-bit value between two
\* iterations; testing it at entry has the first half run before the second.
RECURSIVE nibble_bytes(_, _, _, _)
nibble_bytes(bytes, state, lo, n) ==
    IF n = 0 \/ state.current_value \notin Int16
    THEN state
    ELSE IF n = 1
         THEN LET byte_val == bytes[lo + 1]
                  high_nibble == (byte_val \div 16) % 16
                  low_nibble == byte_val % 16
              IN nibble_step(nibble_step(state, high_nibble), low_nibble)
         ELSE LET half == nibble_bytes(bytes, state, lo, n \div 2)
              IN nibble_bytes(bytes, half, lo + (n \div 2), n - (n \div 2))

\* decompress_nibble_signed: the accumulator starts at 0; it never raises.
decompress_nibble_signed(bytes) ==
    Returns(nibble_bytes(bytes, [current_value |-> 0, out |-> <<>>], 0, Len(bytes)).out)

\* try_nibble_signed of main.py: the same statements as
\* decompress_nibble_signed.
try_nibble_signed(bytes) ==
    Returns(nibble_bytes(bytes, [current_value |-> 0, out |-> <<>>], 0, Len(bytes)).out)

\* Longest short input drawn for the nibble decoders.
MaxNibbleLen == 2
\* How far past the first saturating length the long inputs go.
NibbleLongSpread == 2

\* Byte values of the short inputs and of the tails of the long ones.
NibbleBytes == {0, 1, 112, 127, 128, 240}

\* The long inputs: a run of 0x77 (+7, +7) or of 0x88 (-8, -8) that brings
\* the accumulator next to the end of the range or past it, then at most
\* one more byte. 2340 bytes of 0x77 give 32760, 2047 bytes of 0x88 -32752.
NibbleLongRuns ==
    {Repeat(119, ((32767 \div 7) \div 2) + k) \o tail :
         k \in 0..NibbleLongSpread, tail \in SeqsUpTo(NibbleBytes, 1)}
    \cup {Repeat(136, ((32768 \div 8) \div 2) - 1 + k) \o tail :
              k \in 0..NibbleLongSpread, tail \in SeqsUpTo(NibbleBytes, 1)}

NibbleInit ==
    /\ \E bytes \in SeqsUpTo(NibbleBytes, MaxNibbleLen) \cup NibbleLongRuns,
          fn \in {"decompress_nibble_signed", "try_nibble_signed"} :
           call = [fn |-> fn, args |-> <<bytes>>]
    /\ ret = Pending

DecompressNibbleSigned ==
    /\ call.fn = "decompress_nibble_signed"
    /\ ~ret.done
    /\ ret' = Returned(decompress_nibble_signed(call.args[1]))
    /\ UNCHANGED <<call, notCall>>

TryNibbleSigned ==
    /\ call.fn = "try_nibble_signed"
    /\ ~ret.done
    /\ ret' = Returned(try_nibble_signed(call.args[1]))
    /\ UNCHANGED <<call, notCall>>

NibbleNext == DecompressNibbleSigned \/ TryNibbleSigned

\* ------------------------------------------------------------------------
\* decompress_wavelet_haar
\* ------------------------------------------------------------------------
\* int(x / math.sqrt(2)): the quotient cut towards zero. 13860/19601 is a
\* convergent of 1/sqrt(2), and the integer quotient by it is that value
\* for every |x| up to 2^16, the largest sum of two 16-bit coefficients.
int_div_sqrt2(x) ==
    IF x >= 0 THEN (x * 13860) \div 19601 ELSE -(((-x) * 13860) \div 19601)

\* list[a:b] (0-based, b exclusive, clamped to the list).
ListSlice(list, a, b) ==
    IF a >= Min(b, Len(list)) THEN <<>> ELSE SubSeq(list, a + 1, Min(b, Len(list)))

\* The int16 coefficients: coeffs_size little-endian signed 16-bit values.
parse_int16(bytes, coeffs_size) ==
    [i \in 1..coeffs_size |->
        LET val == bytes[2 * i - 1] + 256 * bytes[2 * i]
        IN IF val >= 32768 THEN val - 65536 ELSE val]

\* _parse_wavelet_coefficients for the types 1 (uint8) and 2 (int16): the
\* coefficients, then the rows coeffs[i*width:(i+1)*width]. The uint8 branch
\* takes what data there is, so its rows can be short or empty. Type 4
\* (float32) is not modelled and no drawn input has it; every other type
\* raises.
_parse_wavelet_coefficients(bytes, height, width, levels, data_type) ==
    LET coeffs_size == height * width
        rows(coeffs) ==
            [failed |-> FALSE,
             grid |-> [i \in 1..height |->
                          ListSlice(coeffs, (i - 1) * width, i * width)]]
    IN CASE data_type = 1 -> rows(ListSlice(bytes, 0, coeffs_size))
         [] data_type = 2 ->
                IF Len(bytes) < coeffs_size * 2
                THEN [failed |-> TRUE, grid |-> <<>>]
                ELSE rows(parse_int16(bytes, coeffs_size))
         [] OTHER -> [failed |-> TRUE, grid |-> <<>>]

\* A pair distance of a whole step.
pair_offset_whole_step(step) == step

\* Half the step of a level, the distance between the two cells of a pair.
pair_offset(step) == step \div 2

\* One pair of the row loops (axis "rows": cell (outer, inner) and the cell
\* pair_offset(step) to its right) or of the column loops (axis "columns":
\* cell (inner, outer) and the cell pair_offset(step) below it), indices
\* 0-based. The pair is skipped when its second index is not below size.
\* Reading a cell that its row does not have raises IndexError (failed).
\* The first cell is assigned int((a + d) / sqrt(2)) and then the second
\* int((a - d) / sqrt(2)); with an offset of 0 both are the same cell.
haar_pair(state, outer, inner, step, size, axis) ==
    LET i == IF axis = "rows" THEN outer ELSE inner
        j == IF axis = "rows" THEN inner ELSE outer
        i2 == IF axis = "rows" THEN i ELSE i + pair_offset(step)
        j2 == IF axis = "rows" THEN j + pair_offset(step) ELSE j
        result == state.grid
    IN IF ~(inner + pair_offset(step) < size)
       THEN state
       ELSE IF j >= Len(result[i + 1]) \/ j2 >= Len(result[i2 + 1])
            THEN [failed |-> TRUE, grid |-> result]
            ELSE LET a == result[i + 1][j + 1]
                     d == result[i2 + 1][j2 + 1]
                     first == [result EXCEPT ![i + 1][j + 1] = int_div_sqrt2(a + d)]
                     second_in_range ==
                         IF axis = "rows"
                         THEN j2 < Len(result[i + 1])
                         ELSE i2 < Len(result)
                 IN [failed |-> FALSE,
                     grid |-> IF second_in_range
                              THEN [first EXCEPT ![i2 + 1][j2 + 1] = int_div_sqrt2(a - d)]
                              ELSE first]

\* The inner loop over range(0, size, step) run for n iterations from the
\* k-th (index k * step), as two halves one after the other; an exception
\* ends it.
RECURSIVE haar_inner(_, _, _, _, _, _, _)
haar_inner(state, outer, k, n, step, size, axis) ==
    IF n = 0 \/ state.failed
    THEN state
    ELSE IF n = 1
         THEN haar_pair(state, outer, k * step, step, size, axis)
         ELSE LET half == haar_inner(state, outer, k, n \div 2, step, size, axis)
              IN haar_inner(half, outer, k + (n \div 2), n - (n \div 2), step, size, axis)

\* The outer loop over range(0, size, step), in the same way; each of its
\* iterations runs the whole inner loop.
RECURSIVE haar_outer(_, _, _, _, _, _)
haar_outer(state, k, n, step, size, axis) ==
    IF n = 0 \/ state.failed
    THEN state
    ELSE IF n = 1
         THEN haar_inner(state, k * step, 0, (size + step - 1) \div step, step, size, axis)
         ELSE LET half == haar_outer(state, k, n \div 2, step, size, axis)
              IN haar_outer(half, k + (n \div 2), n - (n \div 2), step, size, axis)

\* The loop `for level in range(levels)`: size = len(result) for both
\* directions, step = 2 ** level, the rows and then the columns.
RECURSIVE haar_levels(_, _, _)
haar_levels(state, level, levels) ==
    IF level >= levels \/ state.failed
    THEN state
    ELSE LET size == Len(state.grid)
             step == 2 ^ level
             count == (size + step - 1) \div step
             rows == haar_outer(state, 0, count, step, size, "rows")
             columns == haar_outer(rows, 0, count, step, size, "columns")
         IN haar_levels(columns, level + 1, levels)

\* _inverse_haar_transform_2d
_inverse_haar_transform_2d(coeffs, levels) == haar_levels(coeffs, 0, levels)

\* The rows one after the other.
RECURSIVE flat_rows(_)
flat_rows(result) ==
    IF result = <<>> THEN <<>> ELSE Head(result) \o flat_rows(Tail(result))

\* _flatten_result for the types 1 and 2: uint8 values clamped to 0..255,
\* int16 values clamped to -32768..32767 as two bytes, low byte first.
_flatten_result(result, data_type) ==
    LET flat == flat_rows(result)
    IN IF data_type = 1
       THEN [k \in 1..Len(flat) |-> Min(255, IF flat[k] < 0 THEN 0 ELSE flat[k])]
       ELSE [k \in 1..(2 * Len(flat)) |->
                LET v == flat[(k + 1) \div 2]
                    val == IF v > 32767 THEN 32767 ELSE IF v < -32768 THEN -32768 ELSE v
                    unsigned == IF val < 0 THEN val + 65536 ELSE val
                IN IF k % 2 = 1 THEN unsigned % 256 ELSE unsigned \div 256]

\* decompress_wavelet_haar: at least 8 bytes, the 6-byte header, then the
\* coefficients; every exception of the three steps is raised again as
\* "Wavelet decompression failed: ..".
decompress_wavelet_haar(bytes) ==
    IF Len(bytes) < 8
    THEN Raises("Data too short for Wavelet compression")
    ELSE LET height == bytes[1] + 256 * bytes[2]
             width == bytes[3] + 256 * bytes[4]
             levels == bytes[5]
             data_type == bytes[6]
             transform_data == ListSlice(bytes, 6, Len(bytes))
         IN IF height <= 0 \/ width <= 0 \/ levels < 1 \/ levels > 5
            THEN Raises("Invalid wavelet parameters")
            ELSE LET coeffs == _parse_wavelet_coefficients(transform_data, height,
                                   width, levels, data_type)
                     result == _inverse_haar_transform_2d(coeffs, levels)
                 IN IF coeffs.failed \/ result.failed
                    THEN Raises("Wavelet decompression failed")
                    ELSE Returns(_flatten_result(result.grid, data_type))

\* Largest height and width of the drawn grids.
MaxHaarSide == 3

\* The drawn (height, width): every pair up to MaxHaarSide, and two with a
\* second header byte.
HaarShapes ==
    ((0..MaxHaarSide) \X (0..MaxHaarSide)) \cup {<<1, 256>>, <<256, 1>>}

\* The drawn level counts (1..5 are valid) and data types (3 is not one).
HaarLevels == {0, 1, 2, 3, 5, 6}
HaarTypes == {1, 2, 3}

\* The coefficient bytes are a pattern repeated: as int16 values 0, -1,
\* 32767, -32768, 513 and 1, 2, 3, ..
HaarPatterns == {<<0>>, <<255>>, <<255, 127>>, <<0, 128>>, <<1, 2>>, <<1, 0, 2, 0, 3, 0>>}

HaarPayload(pattern, n) == [k \in 1..n |-> pattern[((k - 1) % Len(pattern)) + 1]]

\* Bytes per coefficient of a data type.
HaarWidth(data_type) == IF data_type = 2 THEN 2 ELSE 1

\* A header and a payload that is one byte short, exact, or one or two
\* bytes long.
WaveletInit ==
    /\ \E shape \in HaarShapes, levels \in HaarLevels, data_type \in HaarTypes,
          pattern \in HaarPatterns, slack \in {-1, 0, 1, 2} :
           LET need == shape[1] * shape[2] * HaarWidth(data_type)
               header == <<shape[1] % 256, shape[1] \div 256,
                           shape[2] % 256, shape[2] \div 256, levels, data_type>>
           IN /\ need + slack >= 0
              /\ call = [fn |-> "decompress_wavelet_haar",
                         args |-> <<header \o HaarPayload(pattern, need + slack)>>]
    /\ ret = Pending

DecompressWaveletHaar ==
    /\ call.fn = "decompress_wavelet_haar"
    /\ ~ret.done
    /\ ret' = Returned(decompress_wavelet_haar(call.args[1]))
    /\ UNCHANGED <<call, notCall>>

\* ------------------------------------------------------------------------
\* ECG lead reconstruction
\* ------------------------------------------------------------------------
\* lead_order of _serialize_ecg_samples; the lead_names of the layouts are
\* its first 3, 8 and 12 names.
lead_order ==
    <<"I", "II", "III", "aVR", "aVL", "aVF", "V1", "V2", "V3", "V4", "V5", "V6">>

lead_names(num_leads) == SubSeq(lead_order, 1, num_leads)

\* The names in a list of names.
Names(names) == {names[k] : k \in 1..Len(names)}

\* data[offset] | (data[offset + 1] << 8) as a signed 16-bit sample, offset
\* 0-based.
ecg_sample(bytes, offset) ==
    LET sample == bytes[offset + 1] + 256 * bytes[offset + 2]
    IN IF sample >= 32768 THEN sample - 65536 ELSE sample

\* The samples of one lead: for each of the offsets in turn, the sample
\* there when offset + 1 < len(data).
lead_samples(bytes, offsets) ==
    LET kept == SelectSeq(offsets, LAMBDA offset : offset + 1 < Len(bytes))
    IN [k \in 1..Len(kept) |-> ecg_sample(bytes, kept[k])]

\* The leads of a packed layout: lead i (0-based) has its num_samples
\* samples from offset i * 2 * num_samples on.
packed_leads(bytes, names, num_samples) ==
    [name \in Names(names) |->
        LET i == (CHOOSE k \in 1..Len(names) : names[k] = name) - 1
        IN lead_samples(bytes,
               [j \in 1..num_samples |-> (i * 2 * num_samples) + ((j - 1) * 2)])]

\* The leads of an interleaved layout: sample j of lead i (both 0-based) is
\* at offset j * num_leads * 2 + i * 2.
interleaved_leads(bytes, names, samples_per_lead) ==
    [name \in Names(names) |->
        LET i == (CHOOSE k \in 1..Len(names) : names[k] = name) - 1
        IN lead_samples(bytes,
               [j \in 1..samples_per_lead |-> ((j - 1) * Len(names) * 2) + (i * 2)])]

\* dict.get(lead, [0] * num_samples)
get_lead(leads, lead, num_samples) ==
    IF lead \in DOMAIN leads THEN leads[lead] ELSE Repeat(0, num_samples)

\* A reconstruction from three leads whose aVR is the negated half of the
\* sum, -((I + II) // 2).
_reconstruct_12_ecg_leads_negated_half(three_leads) ==
    LET result == [lead \in {"I", "II", "III"} \cap DOMAIN three_leads |->
                      three_leads[lead]]
        len_I == Len(get_lead(result, "I", 0))
        len_II == Len(get_lead(result, "II", 0))
        num_samples == IF len_I # 0 THEN len_I
                       ELSE IF len_II # 0 THEN len_II
                            ELSE Len(get_lead(result, "III", 0))
        I == get_lead(result, "I", num_samples)
        II == get_lead(result, "II", num_samples)
        base_signal == [i \in 1..num_samples |-> II[i] \div 4]
        derived ==
            [lead \in {"aVR", "aVL", "aVF", "V1", "V2", "V3", "V4", "V5", "V6"} |->
                [i \in 1..num_samples |->
                    CASE lead = "aVR" -> -((I[i] + II[i]) \div 2)
                      [] lead = "aVL" -> I[i] - (II[i] \div 2)
                      [] lead = "aVF" -> II[i] - (I[i] \div 2)
                      [] lead = "V1" -> base_signal[i] - ((i - 1) % 10) * 5
                      [] lead = "V2" -> base_signal[i] - ((i - 1) % 8) * 3
                      [] lead = "V3" -> base_signal[i] - ((i - 1) % 6) * 2
                      [] lead = "V4" -> base_signal[i] - ((i - 1) % 4) * 1
                      [] lead = "V5" -> base_signal[i] + ((i - 1) % 4) * 1
                      [] lead = "V6" -> base_signal[i] + ((i - 1) % 6) * 2]]
    IN IF num_samples > 0 THEN derived @@ result ELSE result

\* _reconstruct_12_ecg_leads: I, II, III are copied; num_samples is the
\* length of the first of them that is not empty; the other nine leads are
\* computed from I and II and replace what three_leads had for them. The
\* list index i of the code is i - 1 here; // is the floored division.
_reconstruct_12_ecg_leads(three_leads) ==
    LET result == [lead \in {"I", "II", "III"} \cap DOMAIN three_leads |->
                      three_leads[lead]]
        len_I == Len(get_lead(result, "I", 0))
        len_II == Len(get_lead(result, "II", 0))
        num_samples == IF len_I # 0 THEN len_I
                       ELSE IF len_II # 0 THEN len_II
                            ELSE Len(get_lead(result, "III", 0))
        I == get_lead(result, "I", num_samples)
        II == get_lead(result, "II", num_samples)
        base_signal == [i \in 1..num_samples |-> II[i] \div 4]
        derived ==
            [lead \in {"aVR", "aVL", "aVF", "V1", "V2", "V3", "V4", "V5", "V6"} |->
                [i \in 1..num_samples |->
                    CASE lead = "aVR" -> (-(I[i] + II[i])) \div 2
                      [] lead = "aVL" -> I[i] - (II[i] \div 2)
                      [] lead = "aVF" -> II[i] - (I[i] \div 2)
                      [] lead = "V1" -> base_signal[i] - ((i - 1) % 10) * 5
                      [] lead = "V2" -> base_signal[i] - ((i - 1) % 8) * 3
                      [] lead = "V3" -> base_signal[i] - ((i - 1) % 6) * 2
                      [] lead = "V4" -> base_signal[i] - ((i - 1) % 4) * 1
                      [] lead = "V5" -> base_signal[i] + ((i - 1) % 4) * 1
                      [] lead = "V6" -> base_signal[i] + ((i - 1) % 6) * 2]]
    IN IF num_samples > 0 THEN derived @@ result ELSE result

\* The longest of the leads, 0 when there is none.
max_lead_length(leads) ==
    IF DOMAIN leads = {}
    THEN 0
    ELSE CHOOSE n \in {Len(leads[lead]) : lead \in DOMAIN leads} :
             \A lead \in DOMAIN leads : Len(leads[lead]) <= n

\* _infer_remaining_ecg_leads: the available leads are kept; each of the
\* other leads aVR .. V6 is computed from I and II.
_infer_remaining_ecg_leads(available_leads) ==
    LET num_samples == max_lead_length(available_leads)
        I == get_lead(available_leads, "I", num_samples)
        II == get_lead(available_leads, "II", num_samples)
        inferred ==
            [lead \in {"aVR", "aVL", "aVF", "V1", "V2", "V3", "V4", "V5", "V6"}
                          \ DOMAIN available_leads |->
                [i \in 1..num_samples |->
                    CASE lead = "aVR" -> (-(I[i] + II[i])) \div 2
                      [] lead = "aVL" -> I[i] - (II[i] \div 2)
                      [] lead = "aVF" -> II[i] - (I[i] \div 2)
                      [] lead = "V1" -> (II[i] \div 3) - ((i - 1) % 8) * 2
                      [] lead = "V2" -> (II[i] \div 3) - ((i - 1) % 6) * 1
                      [] lead = "V3" -> II[i] \div 3
                      [] lead = "V4" -> (II[i] \div 3) + ((i - 1) % 6) * 1
                      [] lead = "V5" -> (II[i] \div 3) + ((i - 1) % 8) * 2
                      [] lead = "V6" -> (II[i] \div 3) + ((i - 1) % 10) * 3]]
    IN IF num_samples > 0 THEN available_leads @@ inferred ELSE available_leads

\* _reconstruct_from_available_leads
_reconstruct_from_available_leads(available_leads) ==
    IF {"I", "II", "III"} \subseteq DOMAIN available_leads
    THEN _reconstruct_12_ecg_leads(available_leads)
    ELSE _infer_remaining_ecg_leads(available_leads)

\* max(-32768, min(32767, sample)) as the two bytes sample & 0xFF and
\* (sample >> 8) & 0xFF.
ecg_sample_bytes(sample) ==
    LET clamped == IF sample > 32767 THEN 32767
                   ELSE IF sample < -32768 THEN -32768 ELSE sample
        unsigned == IF clamped < 0 THEN clamped + 65536 ELSE clamped
    IN <<unsigned % 256, unsigned \div 256>>

\* The bytes of the leads that leads has, from the k-th name of lead_order.
RECURSIVE serialize_from(_, _)
serialize_from(leads, k) ==
    IF k > Len(lead_order)
    THEN <<>>
    ELSE LET lead_name == lead_order[k]
             samples == IF lead_name \in DOMAIN leads THEN leads[lead_name] ELSE <<>>
         IN [b \in 1..(2 * Len(samples)) |->
                ecg_sample_bytes(samples[(b + 1) \div 2])[2 - (b % 2)]]
                \o serialize_from(leads, k + 1)

\* _serialize_ecg_samples
_serialize_ecg_samples(leads) == serialize_from(leads, 1)

\* _decompress_ecg_leads_3lead
_decompress_ecg_leads_3lead(bytes) ==
    IF Len(bytes) < 6
    THEN Raises("Insufficient data for 3-lead ECG")
    ELSE LET num_samples == Len(bytes) \div 6
             leads == packed_leads(bytes, lead_names(3), num_samples)
         IN Returns(_serialize_ecg_samples(_reconstruct_12_ecg_leads(leads)))

\* _decompress_ecg_leads_8lead
_decompress_ecg_leads_8lead(bytes) ==
    IF Len(bytes) < 16
    THEN Raises("Insufficient data for 8-lead ECG")
    ELSE LET num_samples == Len(bytes) \div 16
             leads == packed_leads(bytes, lead_names(8), num_samples)
         IN Returns(_serialize_ecg_samples(_infer_remaining_ecg_leads(leads)))

\* One pattern of _decompress_ecg_leads_interleaved: whether it returns,
\* and what.
interleaved_pattern(bytes, num_leads) ==
    LET samples_per_lead == Len(bytes) \div (num_leads * 2)
        leads == interleaved_leads(bytes, lead_names(num_leads), samples_per_lead)
    IN IF Len(bytes) >= num_leads * 2
          /\ \A lead \in DOMAIN leads : Len(leads[lead]) > 0
       THEN [returns |-> TRUE,
             out |-> _serialize_ecg_samples(_reconstruct_from_available_leads(leads))]
       ELSE [returns |-> FALSE, out |-> <<>>]

\* _decompress_ecg_leads_interleaved: the patterns of 3, 8 and 12 leads in
\* turn.
_decompress_ecg_leads_interleaved(bytes) ==
    IF Len(bytes) < 6
    THEN Raises("Insufficient data for interleaved ECG")
    ELSE IF interleaved_pattern(bytes, 3).returns
         THEN Returns(interleaved_pattern(bytes, 3).out)
         ELSE IF interleaved_pattern(bytes, 8).returns
              THEN Returns(interleaved_pattern(bytes, 8).out)
              ELSE IF interleaved_pattern(bytes, 12).returns
                   THEN Returns(interleaved_pattern(bytes, 12).out)
                   ELSE Raises("No valid interleaved pattern found")

\* _try_ecg_reconstruction: twelve packed leads, serialized as they are.
_try_ecg_reconstruction(bytes) ==
    LET num_samples == Len(bytes) \div 24
    IN IF num_samples = 0
       THEN Raises("No complete ECG samples found")
       ELSE Returns(_serialize_ecg_samples(
                        packed_leads(bytes, lead_names(12), num_samples)))

\* A format of decompress_ecg_leads gave its result: it did not raise and
\* the result is not empty.
format_gives(outcome) == ~outcome.raised /\ Len(outcome.out) > 0

\* A decompress_ecg_leads that tries the 8-lead format first.
decompress_ecg_leads_8lead_first(bytes) ==
    IF Len(bytes) < 12
    THEN Raises("Data too short for ECG lead compression")
    ELSE IF format_gives(_decompress_ecg_leads_8lead(bytes))
         THEN _decompress_ecg_leads_8lead(bytes)
         ELSE IF format_gives(_decompress_ecg_leads_3lead(bytes))
              THEN _decompress_ecg_leads_3lead(bytes)
              ELSE IF format_gives(_decompress_ecg_leads_interleaved(bytes))
                   THEN _decompress_ecg_leads_interleaved(bytes)
                   ELSE IF Len(bytes) >= 24
                        THEN _try_ecg_reconstruction(bytes)
                        ELSE Raises("No valid ECG lead format detected")

\* decompress_ecg_leads: the formats 3-lead, 8-lead, interleaved in turn,
\* the first that gives a result; then the direct 12-lead layout.
decompress_ecg_leads(bytes) ==
    IF Len(bytes) < 12
    THEN Raises("Data too short for ECG lead compression")
    ELSE IF format_gives(_decompress_ecg_leads_3lead(bytes))
         THEN _decompress_ecg_leads_3lead(bytes)
         ELSE IF format_gives(_decompress_ecg_leads_8lead(bytes))
              THEN _decompress_ecg_leads_8lead(bytes)
              ELSE IF format_gives(_decompress_ecg_leads_interleaved(bytes))
                   THEN _decompress_ecg_leads_interleaved(bytes)
                   ELSE IF Len(bytes) >= 24
                        THEN _try_ecg_reconstruction(bytes)
                        ELSE Raises("No valid ECG lead format detected")

\* Most 16-bit samples of a drawn input.
MaxEcgSamples == 17

\* The samples of the inputs are taken in turn from this cycle, from any
\* of its positions on.
EcgCycle == <<3, -5, 12, 7, 32767, -32768, 100, -1, 0, 1001, -333>>

EcgSamples(start, n) == [k \in 1..n |-> EcgCycle[((start + k - 2) % Len(EcgCycle)) + 1]]

\* The bytes of 16-bit samples, low byte first.
EcgBytes(samples) ==
    [b \in 1..(2 * Len(samples)) |->
        LET s == samples[(b + 1) \div 2]
            u == IF s < 0 THEN s + 65536 ELSE s
        IN IF b % 2 = 1 THEN u % 256 ELSE u \div 256]

\* The ECG entries of the registry and the interleaved format.
EcgEntries ==
    {"ecg_leads", "ecg_leads_3lead", "ecg_leads_8lead", "ecg_leads_interleaved"}

\* A call on the bytes of 0..MaxEcgSamples samples, with or without one
\* more byte after them.
EcgInit ==
    /\ \E fn \in EcgEntries, n \in 0..MaxEcgSamples, start \in 1..Len(EcgCycle),
          tail \in {<<>>, <<1>>} :
           call = [fn |-> fn, args |-> <<EcgBytes(EcgSamples(start, n)) \o tail>>]
    /\ ret = Pending

DecompressEcgLeads ==
    /\ call.fn = "ecg_leads"
    /\ ~ret.done
    /\ ret' = Returned(decompress_ecg_leads(call.args[1]))
    /\ UNCHANGED <<call, notCall>>

DecompressEcgLeads3Lead ==
    /\ call.fn = "ecg_leads_3lead"
    /\ ~ret.done
    /\ ret' = Returned(_decompress_ecg_leads_3lead(call.args[1]))
    /\ UNCHANGED <<call, notCall>>

DecompressEcgLeads8Lead ==
    /\ call.fn = "ecg_leads_8lead"
    /\ ~ret.done
    /\ ret' = Returned(_decompress_ecg_leads_8lead(call.args[1]))
    /\ UNCHANGED <<call, notCall>>

DecompressEcgLeadsInterleaved ==
    /\ call.fn = "ecg_leads_interleaved"
    /\ ~ret.done
    /\ ret' = Returned(_decompress_ecg_leads_interleaved(call.args[1]))
    /\ UNCHANGED <<call, notCall>>

EcgNext ==
    \/ DecompressEcgLeads
    \/ DecompressEcgLeads3Lead
    \/ DecompressEcgLeads8Lead
    \/ DecompressEcgLeadsInterleaved

\* ------------------------------------------------------------------------
\* The bit-stream decode loops, one iteration at a time
\* ------------------------------------------------------------------------
\* A matching loop that peeks the bits of the matched code where the code
\* reads them.
RECURSIVE huffman_match_loop_peeking(_, _, _)
huffman_match_loop_peeking(items, state, n) ==
    IF n = 0 \/ state.stopped \/ ~has_bits(state.self, 1)
    THEN state
    ELSE IF n = 1
         THEN LET i == first_match(items, state.self)
              IN IF i = 0
                 THEN [state EXCEPT !.stopped = TRUE]
                 ELSE [self |-> peek_bits(state.self, items[i].length).self,
                       result |-> Append(state.result, items[i].symbol),
                       stopped |-> FALSE]
         ELSE LET half == huffman_match_loop_peeking(items, state, n \div 2)
              IN huffman_match_loop_peeking(items, half, n - (n \div 2))

\* One iteration of a loop that peeks.
huffman_iteration_peeking(items, state) == huffman_match_loop_peeking(items, state, 1)

\* One iteration of the symbol-matching loop.
huffman_iteration(items, state) == huffman_match_loop(items, state, 1)

\* Longest bitstream blob of the loops.
MaxLoopBlob == 3

\* Byte values of the blobs.
LoopBytes == {0, 85, 255}

\* The blobs of decompress_rice: the short ones and 33 bytes 0xFF, whose
\* first value has a unary part of 256 bits.
RiceLoopBlobs == SeqsUpTo(LoopBytes, MaxLoopBlob) \cup {Repeat(255, 33)}

\* The Rice parameters m.
RiceLoopParams == {1, 2, 4, 5}

\* The code length vectors of the tables of the standard and the canonical
\* decoder.
LoopLengths == {<<>>, <<1>>, <<1, 1>>, <<3>>, <<0, 2>>, <<1, 3>>, <<2, 2, 2, 2>>, <<9>>}

\* The table of _decompress_huffman_canonical for a length vector, and that
\* of _decompress_huffman_standard, which pads the vector and passes over
\* the entries of length 0.
CanonicalLoopTable(bit_lengths) ==
    huffman_items(_generate_canonical_huffman_codes(bit_lengths))

StandardLoopTable(code_lengths) ==
    SelectSeq(huffman_items(_generate_canonical_huffman_codes(
                  code_lengths \o Repeat(0, 256 - Len(code_lengths)))),
              LAMBDA e : e.length # 0)

\* Tables of _decompress_huffman_simple, whose codes are those of the
\* header: a 1-bit code, a code of 9 bits, a value that 2 bits cannot take,
\* a code of 12 zero bits.
SimpleLoopTables ==
    {<<[symbol |-> 0, code |-> 0, length |-> 1]>>,
     <<[symbol |-> 0, code |-> 1, length |-> 1],
       [symbol |-> 1, code |-> 170, length |-> 9]>>,
     <<[symbol |-> 7, code |-> 300, length |-> 2]>>,
     <<[symbol |-> 9, code |-> 0, length |-> 12]>>}

\* The decode loop is about to start: the BitStream is new, nothing is
\* decoded. last.op is the position in the loop ("while": at its test),
\* last.n counts the iterations begun, last.value is unary_count, ret.out
\* is the result so far, before is the BitStream as the iteration that was
\* begun last found it.
LoopStart(fn, blob, items, m) ==
    /\ call = [fn |-> fn, args |-> <<blob>>, items |-> items, m |-> m]
    /\ bitstream = BitStream(blob)
    /\ before = BitStream(blob)
    /\ last = [op |-> "while", n |-> 0, value |-> 0]
    /\ reads = <<>>
    /\ ret = [done |-> FALSE, out |-> <<>>]

DecodeLoopInit ==
    \/ \E blob \in RiceLoopBlobs, m \in RiceLoopParams :
           LoopStart("decompress_rice", blob, <<>>, m)
    \/ \E blob \in SeqsUpTo(LoopBytes, MaxLoopBlob), bit_lengths \in LoopLengths :
           \/ LoopStart("huffman_canonical", blob, CanonicalLoopTable(bit_lengths), 0)
           \/ LoopStart("huffman_standard", blob, StandardLoopTable(bit_lengths), 0)
    \/ \E blob \in SeqsUpTo(LoopBytes, MaxLoopBlob), items \in SimpleLoopTables :
           LoopStart("huffman_simple", blob, items, 0)

\* The iterations a loop may begin here: one more than 8 per byte.
IterationBudget == 8 * Len(bitstream.data) + 1

\* decompress_rice: `while bitstream.has_bits()` holds, an iteration begins
\* with unary_count = 0.
RiceBegin ==
    /\ call.fn = "decompress_rice"
    /\ ~ret.done
    /\ last.op = "while"
    /\ has_bits(bitstream, 1)
    /\ last.n < IterationBudget
    /\ before' = bitstream
    /\ last' = [op |-> "unary", n |-> last.n + 1, value |-> 0]
    /\ UNCHANGED <<bitstream, reads, callVars, probeVars>>

\* decompress_rice: one test of `while bitstream.read_bit() == 1`; a 1 bit
\* adds one to unary_count and the loop is left once unary_count > 255, a 0
\* bit (also the 0 of read_bit at the end of the blob) leaves it.
RiceUnaryBit ==
    /\ call.fn = "decompress_rice"
    /\ last.op = "unary"
    /\ LET r == read_bit(bitstream)
           unary_count == last.value + r.bit
       IN /\ bitstream' = r.self
          /\ last' = [op |-> IF r.bit = 0 \/ unary_count > 255
                             THEN "binary" ELSE "unary",
                      n |-> last.n, value |-> unary_count]
    /\ UNCHANGED <<before, reads, callVars, probeVars>>

\* decompress_rice: the binary part of k bits when has_bits(k), and the
\* value appended as two bytes; the iteration is over.
RiceBinaryPart ==
    /\ call.fn = "decompress_rice"
    /\ last.op = "binary"
    /\ LET k == bit_length(call.m - 1)
           binary == IF k > 0 /\ has_bits(bitstream, k)
                     THEN read_bits(bitstream, k)
                     ELSE [self |-> bitstream, value |-> 0]
           value == last.value * call.m + binary.value
       IN /\ bitstream' = binary.self
          /\ ret' = [done |-> FALSE,
                     out |-> ret.out \o <<value % 256, (value \div 256) % 256>>]
    /\ last' = [last EXCEPT !.op = "while"]
    /\ UNCHANGED <<before, reads, call, probeVars>>

\* An iteration of `while bitstream.has_bits()` in a Huffman decoder: a
\* match goes on, no match leaves the loop and the decoder returns.
HuffmanIteration ==
    /\ call.fn \in {"huffman_standard", "huffman_canonical", "huffman_simple"}
    /\ ~ret.done
    /\ has_bits(bitstream, 1)
    /\ last.n < IterationBudget
    /\ LET state == huffman_iteration(call.items,
                        [self |-> bitstream, result |-> ret.out, stopped |-> FALSE])
       IN /\ bitstream' = state.self
          /\ ret' = IF state.stopped
                    THEN Returned(Returns(state.result))
                    ELSE [done |-> FALSE, out |-> state.result]
    /\ before' = bitstream
    /\ last' = [last EXCEPT !.n = last.n + 1]
    /\ UNCHANGED <<call, reads, probeVars>>

\* has_bits() is false at the test of the loop: the loop is left and the
\* decoder returns.
LoopExit ==
    /\ ~ret.done
    /\ last.op = "while"
    /\ ~has_bits(bitstream, 1)
    /\ ret' = Returned(Returns(ret.out))
    /\ UNCHANGED <<call, bitVars, probeVars>>

DecodeLoopNext ==
    \/ RiceBegin
    \/ RiceUnaryBit
    \/ RiceBinaryPart
    \/ HuffmanIteration
    \/ LoopExit

\* ------------------------------------------------------------------------
\* decompress_lzw
\* ------------------------------------------------------------------------
\* A dictionary of the 7-bit codes only.
lzw_dictionary_7bit == [i \in 0..127 |-> <<i>>]

\* dictionary = {i: bytes([i]) for i in range(dict_size)}, dict_size = 256.
lzw_dictionary == [i \in 0..(2 ^ 8 - 1) |-> <<i>>]

\* Python's w[:1].
FirstByte(w) == SubSeq(w, 1, Min(1, Len(w)))

\* The body of `for k in code_stream`. branches records, for each code,
\* which arm of the if was taken: "table" (k in dictionary), "new"
\* (k == dict_size) or "invalid" (the ValueError, after which nothing runs).
lzw_code(state, k) ==
    IF state.failed
    THEN state
    ELSE IF k \in DOMAIN state.dictionary
         THEN [dictionary |-> [c \in DOMAIN state.dictionary \cup {state.dict_size} |->
                                  IF c = state.dict_size
                                  THEN state.w \o FirstByte(state.dictionary[k])
                                  ELSE state.dictionary[c]],
               dict_size |-> state.dict_size + 1,
               w |-> state.dictionary[k],
               result |-> state.result \o state.dictionary[k],
               branches |-> Append(state.branches, "table"),
               failed |-> FALSE]
         ELSE IF k = state.dict_size
              THEN [dictionary |-> [c \in DOMAIN state.dictionary \cup {state.dict_size} |->
                                       IF c = state.dict_size
                                       THEN state.w \o FirstByte(state.w \o FirstByte(state.w))
                                       ELSE state.dictionary[c]],
                    dict_size |-> state.dict_size + 1,
                    w |-> state.w \o FirstByte(state.w),
                    result |-> state.result \o state.w \o FirstByte(state.w),
                    branches |-> Append(state.branches, "new"),
                    failed |-> FALSE]
              ELSE [state EXCEPT !.branches = Append(state.branches, "invalid"),
                                 !.failed = TRUE]

\* The loop over code_stream[i..], each state bound as an element of a set
\* so that it is evaluated once.
RECURSIVE lzw_codes(_, _, _)
lzw_codes(state, code_stream, i) ==
    IF i > Len(code_stream)
    THEN state
    ELSE CHOOSE out \in {lzw_codes(next, code_stream, i + 1) :
                            next \in {lzw_code(state, code_stream[i])}} : TRUE

\* The state of decompress_lzw at its end for a non-empty input: the first
\* byte is w and is emitted, the other bytes are the codes.
lzw_run(bytes) ==
    lzw_codes([dictionary |-> lzw_dictionary,
               dict_size |-> 2 ^ 8,
               w |-> <<bytes[1]>>,
               result |-> <<bytes[1]>>,
               branches |-> <<>>,
               failed |-> FALSE],
              Tail(bytes), 1)

decompress_lzw(bytes) ==
    IF bytes = <<>>
    THEN Returns(<<>>)
    ELSE LET state == lzw_run(bytes)
         IN IF state.failed
            THEN Raises("Invalid LZW code")
            ELSE Returns(state.result)

\* Longest input of decompress_lzw.
MaxLzwLen == 3

\* Byte values of the inputs: the ends of the code range, both sides of
\* the 7-bit boundary, a letter.
LzwBytes == {0, 65, 127, 128, 255}

LzwInit ==
    /\ \E bytes \in SeqsUpTo(LzwBytes, MaxLzwLen) :
           call = [fn |-> "decompress_lzw", args |-> <<bytes>>]
    /\ ret = Pending

DecompressLzw ==
    /\ call.fn = "decompress_lzw"
    /\ ~ret.done
    /\ ret' = Returned(decompress_lzw(call.args[1]))
    /\ UNCHANGED <<call, notCall>>

\* ------------------------------------------------------------------------
\* Specifications
\* ------------------------------------------------------------------------
InitBits == BitsInit /\ CallIdle /\ ProbeIdle
SpecBits == InitBits /\ [][BitsNext]_vars

InitValidate == ValidateInit /\ BitsIdle /\ ProbeIdle
SpecValidate == InitValidate /\ [][Validate]_vars

InitConfidence == ConfidenceInit /\ BitsIdle /\ ProbeIdle
SpecConfidence == InitConfidence /\ [][Confidence]_vars

InitHuffman == HuffmanInit /\ BitsIdle /\ ProbeIdle
SpecHuffman == InitHuffman /\ [][GenerateCodes]_vars

InitRle == RleInit /\ BitsIdle /\ ProbeIdle
SpecRle == InitRle /\ [][DecompressRle]_vars

InitProbe == ProbeInit /\ BitsIdle /\ CallIdle
SpecProbe == InitProbe /\ [][AnalyzeFile]_vars

InitDelta == DeltaInit /\ BitsIdle /\ ProbeIdle
SpecDelta == InitDelta /\ [][DecompressDelta]_vars

InitVlq == VlqInit /\ BitsIdle /\ ProbeIdle
SpecVlq == InitVlq /\ [][DecompressVlq]_vars

InitLz77 == Lz77Init /\ BitsIdle /\ ProbeIdle
SpecLz77 == InitLz77 /\ [][DecompressLz77]_vars

InitRice == RiceInit /\ BitsIdle /\ ProbeIdle
SpecRice == InitRice /\ [][DecompressRice]_vars

InitHuffmanDecode == HuffmanDecodeInit /\ BitsIdle /\ ProbeIdle
SpecHuffmanDecode == InitHuffmanDecode /\ [][HuffmanDecodeNext]_vars

InitDpcm == DpcmInit /\ BitsIdle /\ ProbeIdle
SpecDpcm == InitDpcm /\ [][DecompressDpcm]_vars

InitNibble == NibbleInit /\ BitsIdle /\ ProbeIdle
SpecNibble == InitNibble /\ [][NibbleNext]_vars

InitWavelet == WaveletInit /\ BitsIdle /\ ProbeIdle
SpecWavelet == InitWavelet /\ [][DecompressWaveletHaar]_vars

InitEcg == EcgInit /\ BitsIdle /\ ProbeIdle
SpecEcg == InitEcg /\ [][EcgNext]_vars

InitDecodeLoop == DecodeLoopInit /\ ProbeIdle
SpecDecodeLoop == InitDecodeLoop /\ [][DecodeLoopNext]_vars /\ WF_vars(DecodeLoopNext)

InitLzw == LzwInit /\ BitsIdle /\ ProbeIdle
SpecLzw == InitLzw /\ [][DecompressLzw]_vars

\* ------------------------------------------------------------------------
\* Probe driver: C1, C2, C3 (SpecProbe)
\* ------------------------------------------------------------------------
Outcomes == report.value.results

\* C1: whatever subset of the decoders raises, the report holds exactly one
\* outcome per registry entry, in registry order (entry i's name, failed
\* exactly when decoder i raised); total_tests is the registry length and
\* success_count + failed_count = total_tests.
C1_OneOutcomePerEntry ==
    report.done =>
        /\ Len(Outcomes) = Len(algorithms)
        /\ \A i \in 1..Len(algorithms) :
               /\ Outcomes[i].method = algorithms[i]
               /\ Outcomes[i].success = ~decoders[i].raised
        /\ report.value.total_tests = Len(algorithms)
        /\ report.value.success_count + report.value.failed_count
               = report.value.total_tests

\* A finished run in which a decoder raised and a later one returned.
C1_Witness ==
    /\ report.done
    /\ \E i, j \in 1..Len(algorithms) :
           i < j /\ decoders[i].raised /\ ~decoders[j].raised

\* C2: every outcome of test_decompression with success = false has
\* decompressed_size = 0, compression_ratio = 0, confidence = 0,
\* checksum_valid = false and an error; with success = true it has no error.
C2_FailedOutcomeIsZeroed ==
    report.done =>
        \A i \in 1..Len(Outcomes) :
            LET r == Outcomes[i]
            IN /\ ~r.success =>
                      /\ r.decompressed_size = 0
                      /\ r.compression_ratio.num = 0
                      /\ r.confidence = 0
                      /\ ~r.checksum_valid
                      /\ r.error # None
               /\ r.success => r.error = None

\* A finished run with a failed outcome, a successful one the validator
\* rejected and a successful one of positive confidence.
C2_Witness ==
    /\ report.done
    /\ \E i, j, k \in 1..Len(Outcomes) :
           /\ ~Outcomes[i].success
           /\ Outcomes[j].success /\ ~Outcomes[j].checksum_valid
           /\ Outcomes[k].success /\ Outcomes[k].confidence > 0

Qualifying == {i \in 1..Len(Outcomes) : Outcomes[i].success /\ Outcomes[i].checksum_valid}

\* Outcome i's (confidence, compression_ratio) is lexicographically below j's.
PairBelow(i, j) ==
    \/ Outcomes[i].confidence < Outcomes[j].confidence
    \/ /\ Outcomes[i].confidence = Outcomes[j].confidence
       /\ Outcomes[i].compression_ratio.num * Outcomes[j].compression_ratio.den
              < Outcomes[j].compression_ratio.num * Outcomes[i].compression_ratio.den

\* C3: with a qualifying outcome (success and checksum_valid), best_* are
\* those of the qualifying outcome of largest (confidence, ratio), the
\* earliest of equal ones; an outcome the validator rejected is never the
\* best; with no qualifying outcome best_method is unset and best_ratio =
\* best_confidence = 0.
C3_BestIsFirstLargestQualifying ==
    report.done =>
        IF Qualifying # {}
        THEN \E b \in Qualifying :
                 /\ \A j \in Qualifying : ~PairBelow(b, j)
                 /\ \A j \in Qualifying : j < b => PairBelow(j, b)
                 /\ report.value.best_method = Outcomes[b].method
                 /\ report.value.best_ratio = Outcomes[b].compression_ratio
                 /\ report.value.best_confidence = Outcomes[b].confidence
        ELSE /\ report.value.best_method = None
             /\ report.value.best_ratio.num = 0
             /\ report.value.best_confidence = 0

\* A finished run with two qualifying outcomes of equal pairs, the earlier
\* one the best, and a rejected outcome of higher confidence.
C3_Witness ==
    /\ report.done
    /\ \E i, j \in Qualifying, k \in 1..Len(Outcomes) :
           /\ i < j
           /\ ~PairBelow(i, j) /\ ~PairBelow(j, i)
           /\ report.value.best_method = Outcomes[i].method
           /\ Outcomes[k].success /\ ~Outcomes[k].checksum_valid
           /\ Outcomes[k].confidence > Outcomes[i].confidence

\* ------------------------------------------------------------------------
\* calculate_confidence: C4 (SpecConfidence)
\* ------------------------------------------------------------------------
\* The four contributions, in hundredths, as the scoring rule states them.
RatioPoints(r) ==
    IF 2 * r.num >= 3 * r.den /\ r.num <= 10 * r.den THEN 30
    ELSE IF 5 * r.num >= 6 * r.den /\ r.num <= 15 * r.den THEN 15
    ELSE 0

EntropyPoints(entropy_in, entropy_out) ==
    IF entropy_in - entropy_out > EntropyOne THEN 30
    ELSE IF 2 * (entropy_in - entropy_out) > EntropyOne THEN 15
    ELSE 0

ValidationPoints(valid) == IF valid THEN 20 ELSE 0

SizePoints(size) == IF size >= 1000 /\ size <= 10 ^ 8 THEN 20 ELSE 0

\* C4: for a successful outcome calculate_confidence is the sum of the four
\* contributions; every confidence is within [0, 1], and it is 1 only when
\* all four top contributions apply.
C4_ConfidenceIsSumOfFour ==
    (ret.done /\ call.fn = "calculate_confidence") =>
        LET r == call.args[1]
            ratio == RatioPoints(r.compression_ratio)
            entropy == EntropyPoints(r.entropy_original, r.entropy_decompressed)
            valid == ValidationPoints(r.checksum_valid)
            size == SizePoints(r.decompressed_size)
        IN /\ r.success => ret.value = ratio + entropy + valid + size
           /\ 0 <= ret.value /\ ret.value <= 100
           /\ ret.value = 100 =>
                  ratio = 30 /\ entropy = 30 /\ valid = 20 /\ size = 20

\* A successful outcome scored 1.0.
C4_Witness ==
    /\ ret.done
    /\ call.fn = "calculate_confidence"
    /\ call.args[1].success
    /\ ret.value = 100

\* ------------------------------------------------------------------------
\* validate_decompressed_data: C5 (SpecValidate)
\* ------------------------------------------------------------------------
\* The message of the first rejection test that holds for output D of a
\* blob of n bytes, "Validation passed" when none holds.
FirstRejection(D, n) ==
    LET size == Len(D)
    IN IF size = 0 THEN "Empty output"
       ELSE IF n > 0 /\ size > 100 * n THEN "Suspicious expansion ratio"
       ELSE IF n = 0 \/ 2 * size < n THEN "Suspicious compression ratio"
       ELSE IF calculate_entropy(D) < EntropyOne THEN "Entropy too low"
       ELSE IF 100 * Cardinality({i \in 1..size : D[i] = 0}) > 95 * size
            THEN "Too many null bytes"
       ELSE "Validation passed"

\* C5: validate_decompressed_data reports invalid exactly when the output is
\* empty, expands more than 100x, is below half the input (ratio 0 for an
\* empty input), has entropy < 1.0 or is more than 95% null bytes; the
\* message names the first of these that holds; otherwise it reports valid.
C5_ValidatorRejectsInOrder ==
    (ret.done /\ call.fn = "validate_decompressed_data") =>
        LET first == FirstRejection(call.args[1], call.args[2])
        IN /\ ret.value.msg = first
           /\ ret.value.valid = (first = "Validation passed")

\* An output exactly half the input's size with entropy exactly 1.0, which
\* the validator accepts.
C5_Witness ==
    /\ ret.done
    /\ call.fn = "validate_decompressed_data"
    /\ 2 * Len(call.args[1]) = call.args[2]
    /\ calculate_entropy(call.args[1]) = EntropyOne
    /\ ret.value.valid

\* ------------------------------------------------------------------------
\* BitStream: C6, C7, C8 (SpecBits)
\* ------------------------------------------------------------------------
BlobBits == 8 * Len(bitstream.data)

\* C6: on a fresh BitStream the successive read_bit results are the bits of
\* the blob in order, most significant bit first within each byte, for all
\* 8*|blob| bits; read_bits(n) with at least n bits unread is the big-endian
\* value of the next n bits.
C6_ReadsAreBlobBitsInOrder ==
    \A i \in 1..Min(Len(reads), BlobBits) : reads[i] = BlobBit(bitstream.data, i)

\* The bits already consumed: the read_bit calls made, at most all the bits.
Consumed == Min(Len(reads), BlobBits)

\* C7: in every reachable state has_bits(n) is true exactly when the bits
\* already consumed plus n are at most 8*|blob|; has_bits(1) stays true until
\* all 8*|blob| bits have been read.
C7_HasBitsCountsUnreadBits ==
    \A n \in 0..MaxCount :
        has_bits(bitstream, n) <=> (Consumed + n <= BlobBits)

\* C8: peek_bits(n) leaves the cursor (pos, bit_pos, current_byte) as it
\* was, and a read_bits(n) issued right after it returns the value that
\* peek_bits(n) returned.
C8_PeekKeepsCursorAndAgreesWithRead ==
    [][/\ last'.op = "peek_bits" => bitstream' = bitstream
       /\ (last.op = "peek_bits" /\ last'.op = "read_bits" /\ last'.n = last.n)
              => last'.value = last.value]_vars

\* A peek_bits issued in the middle of a byte that ran into the next byte
\* and returned a non-zero value.
C8_Witness ==
    /\ last.op = "peek_bits"
    /\ before.bit_pos # 0
    /\ last.n > 8 - before.bit_pos
    /\ last.value > 0
    /\ bitstream = before

\* ------------------------------------------------------------------------
\* Canonical Huffman codes: C9 (SpecHuffman)
\* ------------------------------------------------------------------------
\* The Kraft sum of a length vector is 1: sum of 2^-L over L > 0, scaled
\* by 2^MaxCodeLen.
RECURSIVE KraftScaled(_, _)
KraftScaled(bit_lengths, i) ==
    IF i > Len(bit_lengths)
    THEN 0
    ELSE (IF bit_lengths[i] > 0 THEN 2 ^ (MaxCodeLen - bit_lengths[i]) ELSE 0)
             + KraftScaled(bit_lengths, i + 1)

KraftIsOne(bit_lengths) == KraftScaled(bit_lengths, 1) = 2 ^ MaxCodeLen

\* The bit string of a table entry: the low `length` bits of code, MSB first.
CodeString(entry) == BitsOf(entry.code % (2 ^ entry.length), entry.length)

IsPrefixOf(x, y) == Len(x) <= Len(y) /\ SubSeq(y, 1, Len(x)) = x

PrefixFree(codes) ==
    \A a, b \in DOMAIN codes :
        a # b => ~IsPrefixOf(CodeString(codes[a]), CodeString(codes[b]))

\* C9: for every length vector whose Kraft sum is 1 the table of
\* _generate_canonical_huffman_codes is prefix-free, also when the used
\* lengths skip a value.
C9_KraftOneGivesPrefixFree ==
    (ret.done /\ call.fn = "_generate_canonical_huffman_codes"
        /\ KraftIsOne(call.args[1]))
        => PrefixFree(ret.value)

\* ------------------------------------------------------------------------
\* decompress_rle: C10 (SpecRle)
\* ------------------------------------------------------------------------
EffectiveCount(count) == IF count = 0 THEN 256 ELSE count

\* The pairs of an even-length input expanded one after the other.
RECURSIVE ExpandPairs(_)
ExpandPairs(bytes) ==
    IF Len(bytes) < 2
    THEN <<>>
    ELSE Repeat(bytes[2], EffectiveCount(bytes[1])) \o ExpandPairs(Tail(Tail(bytes)))

RECURSIVE SumOfCounts(_)
SumOfCounts(bytes) ==
    IF Len(bytes) < 2
    THEN 0
    ELSE EffectiveCount(bytes[1]) + SumOfCounts(Tail(Tail(bytes)))

\* C10: on an even-length input of (count, value) pairs decompress_rle
\* returns, in pair order, value repeated count times, count 0 standing for
\* 256; its length is the sum of the effective counts; and the decoding of
\* the RLE encoding of any sequence S is S.
C10_RleExpandsPairs ==
    (ret.done /\ call.fn = "decompress_rle" /\ Len(call.args[1]) % 2 = 0) =>
        /\ ~ret.value.raised
        /\ ret.value.out = ExpandPairs(call.args[1])
        /\ Len(ret.value.out) = SumOfCounts(call.args[1])
        /\ call.encoded => ret.value.out = call.source

\* The encoding of a run of more than 256 equal bytes (a pair with count 0
\* and a further pair), decoded back to the run.
C10_Witness ==
    /\ ret.done
    /\ call.fn = "decompress_rle"
    /\ call.encoded
    /\ Len(call.source) > 256
    /\ call.args[1][1] = 0
    /\ ret.value.out = call.source

\* C11: decompress_rle fails on every odd-length input (the probe outcome of
\* such a blob has success = false, which test_decompression sets exactly
\* when the decoder raises) rather than decoding the leading pairs and
\* ignoring the trailing byte.
C11_RleFailsOnOddLength ==
    (ret.done /\ call.fn = "decompress_rle" /\ Len(call.args[1]) % 2 = 1) =>
        ret.value.raised

\* ------------------------------------------------------------------------
\* decompress_delta: C12 (SpecDelta)
\* ------------------------------------------------------------------------
\* The sum of the first n bytes.
RECURSIVE SumOfBytes(_, _)
SumOfBytes(bytes, n) == IF n = 0 THEN 0 ELSE bytes[n] + SumOfBytes(bytes, n - 1)

\* C12: decompress_delta applied to the byte-wise differences modulo 256 of
\* a sequence S (the first against 0) returns S; it emits one byte per input
\* byte, the i-th being the sum of the first i input bytes modulo 256 (an
\* 8-bit accumulator that starts at 0).
C12_DeltaRebuildsSource ==
    (ret.done /\ call.fn = "decompress_delta") =>
        /\ ~ret.value.raised
        /\ ret.value.out = call.source
        /\ Len(ret.value.out) = Len(call.args[1])
        /\ \A i \in 1..Len(call.args[1]) :
               ret.value.out[i] = SumOfBytes(call.args[1], i) % 256

\* A decoded sequence that falls (255 then 1, then 0): its differences wrap
\* around 256 and the accumulator overflows 8 bits.
C12_Witness ==
    /\ ret.done
    /\ call.fn = "decompress_delta"
    /\ call.source = <<255, 1, 0>>
    /\ SumOfBytes(call.args[1], 3) > 256
    /\ ret.value.out = call.source

\* ------------------------------------------------------------------------
\* decompress_vlq: C13 (SpecVlq)
\* ------------------------------------------------------------------------
\* The 4-byte little-endian representations of the integers ns, in order.
RECURSIVE LittleEndian32All(_)
LittleEndian32All(ns) ==
    IF ns = <<>>
    THEN <<>>
    ELSE LET n == Head(ns)
         IN <<n % 256, (n \div 256) % 256, (n \div 65536) % 256,
              (n \div 16777216) % 256>> \o LittleEndian32All(Tail(ns))

\* C13: for integers n in [0, 2^28), decompress_vlq applied to the VLQ
\* encoding of n is the 4-byte little-endian representation of n, and
\* applied to a concatenation of such encodings it is the concatenation of
\* the 4-byte values in order.
C13_VlqDecodesEncodings ==
    (ret.done /\ call.fn = "decompress_vlq" /\ call.encoded) =>
        /\ ~ret.value.raised
        /\ ret.value.out = LittleEndian32All(call.source)

\* 300, encoded as AC 02, followed by the 4-byte encoding of 2^28 - 1,
\* decoded to 2C 01 00 00 FF FF FF 0F.
C13_Witness ==
    /\ ret.done
    /\ call.fn = "decompress_vlq"
    /\ call.encoded
    /\ call.source = <<300, 2 ^ 28 - 1>>
    /\ call.args[1] = <<172, 2, 255, 255, 255, 127>>
    /\ ret.value.out = <<44, 1, 0, 0, 255, 255, 255, 15>>

\* The groups of an input when a group ends at the first byte whose MSB is 0
\* or after 4 bytes, whichever comes first; k bytes of the current group
\* lie before position i.
RECURSIVE GroupsOfAtMostFour(_, _, _)
GroupsOfAtMostFour(bytes, i, k) ==
    IF i > Len(bytes)
    THEN IF k > 0 THEN 1 ELSE 0
    ELSE IF bytes[i] < 128 \/ k + 1 = 4
         THEN 1 + GroupsOfAtMostFour(bytes, i + 1, 0)
         ELSE GroupsOfAtMostFour(bytes, i + 1, k + 1)

\* C18: decompress_vlq ends a group at the first byte whose MSB is 0 or after
\* 4 bytes, so every decoded integer is below 2^28 and is emitted as 4
\* little-endian bytes: the decoder fails on no input and its output length
\* is 4 times the number of groups.
C18_VlqGroupsOfAtMostFour ==
    (ret.done /\ call.fn = "decompress_vlq") =>
        /\ ~ret.value.raised
        /\ Len(ret.value.out) = 4 * GroupsOfAtMostFour(call.args[1], 1, 0)
        /\ \A g \in 1..(Len(ret.value.out) \div 4) : ret.value.out[4 * g] < 16

\* ------------------------------------------------------------------------
\* decompress_lz77: C14 (SpecLz77)
\* ------------------------------------------------------------------------
\* C14: decompress_lz77 reads frames of a flag byte and up to 8 tokens taken
\* by the flag bits from the MSB: a 1 bit appends the next input byte; a 0
\* bit consumes the 16-bit big-endian offset and len and, the offset being
\* within 1..|output|, appends exactly len bytes, each the output byte
\* offset positions before it. FF 'ABCDEFGH' 00 00 04 04 decodes to
\* 'ABCDEFGHEFGH'.
C14_Lz77DecodesFrames ==
    (ret.done /\ call.fn = "decompress_lz77" /\ call.encoded) =>
        /\ ~ret.value.raised
        /\ ret.value.out = LzExpand(call.source, <<>>).out
        /\ call.args[1] = <<255, 65, 66, 67, 68, 69, 70, 71, 72, 0, 0, 4, 4>>
               => ret.value.out = <<65, 66, 67, 68, 69, 70, 71, 72, 69, 70, 71, 72>>

\* Seven literals, then in the same frame a reference with len 5 > offset 2
\* and in the next frame one more literal: 'ABCDEFG' 'FGFGF' 'Z'.
C14_Witness ==
    /\ ret.done
    /\ call.fn = "decompress_lz77"
    /\ call.encoded
    /\ call.args[1] = <<254, 65, 66, 67, 68, 69, 70, 71, 0, 2, 5, 128, 90>>
    /\ ret.value.out = <<65, 66, 67, 68, 69, 70, 71, 70, 71, 70, 71, 70, 90>>

\* C22: on the encoding of a token sequence with a reference whose offset
\* is 0 or exceeds the output length, decompress_lz77 does not raise and
\* returns the output as decoded up to that token: nothing is copied for it
\* and no later input byte, of the same frame or of a following one,
\* contributes to the output.
C22_InvalidReferenceEndsDecoding ==
    (ret.done /\ call.fn = "decompress_lz77" /\ call.source # <<>>
        /\ ~LzExpand(call.source, <<>>).ok) =>
        /\ ~ret.value.raised
        /\ ret.value.out = LzExpand(call.source, <<>>).out

\* ------------------------------------------------------------------------
\* decompress_rice: C15, C19 (SpecRice)
\* ------------------------------------------------------------------------
\* The values vs, each as a little-endian 16-bit value.
RECURSIVE LittleEndian16All(_)
LittleEndian16All(vs) ==
    IF vs = <<>>
    THEN <<>>
    ELSE <<Head(vs) % 256, Head(vs) \div 256>> \o LittleEndian16All(Tail(vs))

\* C15: with m = 1 (k = 0), decompress_rice applied to a whole number of
\* bytes that pack, MSB-first, a sequence of unary codes (c ones and a zero,
\* c <= 255) emits exactly the counts c, each as a little-endian 16-bit
\* value, in order.
C15_RiceDecodesUnaryCounts ==
    (ret.done /\ call.fn = "decompress_rice" /\ call.encoded) =>
        /\ ~ret.value.raised
        /\ ret.value.out = LittleEndian16All(call.source)

\* The g-th value emitted.
EmittedValue(out, g) == out[2 * g - 1] + 256 * out[2 * g]

\* C19: in decompress_rice with parameter m and k = ceil(log2 m) the unary
\* count of every decoded value is at most 255 and the value is unary * m +
\* remainder with a k-bit remainder, emitted as 2 little-endian bytes: every
\* emitted value is at most 255 * m + 2^k - 1, for the default m = 4 at most
\* 255 * 4 + 3.
C19_RiceUnaryCountAtMost255 ==
    (ret.done /\ call.fn = "decompress_rice") =>
        LET m == call.args[2]
            k == bit_length(m - 1)
        IN /\ ~ret.value.raised
           /\ Len(ret.value.out) % 2 = 0
           /\ \A g \in 1..(Len(ret.value.out) \div 2) :
                  /\ EmittedValue(ret.value.out, g) <= 255 * m + (2 ^ k) - 1
                  /\ m = 4 => EmittedValue(ret.value.out, g) <= 255 * 4 + 3

\* ------------------------------------------------------------------------
\* Huffman decoders: C16 (SpecHuffmanDecode)
\* ------------------------------------------------------------------------
\* The call returned by raising the too-short error of its variant.
RejectedAsTooShort ==
    /\ ret.value.raised
    /\ ret.value.msg \in {"Too short for standard Huffman",
                          "Too short for canonical Huffman",
                          "Too short for simple Huffman"}

\* Each variant is rejected as too short exactly below its threshold, the
\* standard variant's being standard_min.
TooShortExactlyBelow(standard_min) ==
    (ret.done /\ call.fn \in {"huffman_standard", "huffman_canonical", "huffman_simple"}) =>
        LET threshold == CASE call.fn = "huffman_standard" -> standard_min
                           [] call.fn = "huffman_canonical" -> 2
                           [] call.fn = "huffman_simple" -> 512
        IN RejectedAsTooShort <=> Len(call.args[1]) < threshold

\* C16 as stated: each Huffman variant fails with a too-short error exactly
\* when the input is shorter than 16 bytes (huffman_standard), 2 bytes
\* (huffman_canonical), 512 bytes (huffman_simple); an input at or above the
\* threshold is never rejected as too short.
C16_TooShortBelow16_2_512 == TooShortExactlyBelow(16)

\* C16 as amended: the threshold of huffman_standard is 4 bytes; those of
\* huffman_canonical and huffman_simple are 2 and 512 bytes.
C16_TooShortBelow4_2_512 == TooShortExactlyBelow(4)

\* A huffman_standard call on a blob of 4 bytes that decoded symbols, and so
\* was not rejected.
C16_Witness ==
    /\ ret.done
    /\ call.fn = "huffman_standard"
    /\ Len(call.args[1]) = 4
    /\ ~ret.value.raised
    /\ Len(ret.value.out) > 0

\* ------------------------------------------------------------------------
\* Huffman decoders: C23 (SpecHuffmanDecode)
\* ------------------------------------------------------------------------
\* What huffman_standard and huffman_canonical do on the blob of the call:
\* the one that was called as it returned, the other as it would.
StandardOutcome ==
    IF call.fn = "huffman_standard"
    THEN ret.value
    ELSE _decompress_huffman_standard(call.args[1])

CanonicalOutcome ==
    IF call.fn = "huffman_canonical"
    THEN ret.value
    ELSE _decompress_huffman_canonical(call.args[1])

\* Both fail, or both succeed with the same output bytes.
SameOutcome(a, b) == a.raised = b.raised /\ (~a.raised => a.out = b.out)

\* C23 as stated: on every blob huffman_standard and huffman_canonical have
\* the same outcome, both failing or both succeeding with identical output
\* bytes.
C23_StandardIsCanonical ==
    (ret.done /\ call.fn \in {"huffman_standard", "huffman_canonical"}) =>
        SameOutcome(StandardOutcome, CanonicalOutcome)

\* C23 as amended: the two have the same outcome on every blob of at least
\* 4 bytes and on every blob of fewer than 2 bytes (both fail); a blob of 2
\* or 3 bytes is rejected by huffman_standard and decoded by
\* huffman_canonical.
C23_StandardIsCanonicalFrom4Bytes ==
    (ret.done /\ call.fn \in {"huffman_standard", "huffman_canonical"}) =>
        IF Len(call.args[1]) \in {2, 3}
        THEN StandardOutcome.raised /\ ~CanonicalOutcome.raised
        ELSE /\ SameOutcome(StandardOutcome, CanonicalOutcome)
             /\ Len(call.args[1]) < 2 => StandardOutcome.raised

\* A huffman_canonical call on a blob of 5 bytes that decoded symbols, the
\* same ones as huffman_standard decodes.
C23_Witness ==
    /\ ret.done
    /\ call.fn = "huffman_canonical"
    /\ Len(call.args[1]) = 5
    /\ ~ret.value.raised
    /\ Len(ret.value.out) > 0
    /\ ret.value.out = _decompress_huffman_standard(call.args[1]).out

\* ------------------------------------------------------------------------
\* Canonical Huffman codes: C17 (SpecHuffman)
\* ------------------------------------------------------------------------
\* The reference assignment over the present symbols still to visit: the
\* next symbol is the least by (length, symbol); a change of length from
\* prev to l shifts the running code left by l - prev; the symbol takes the
\* code, which is then incremented.
RECURSIVE ReferenceAssign(_, _, _, _)
ReferenceAssign(bit_lengths, symbols, code, prev) ==
    IF symbols = {}
    THEN <<>>
    ELSE LET s == CHOOSE t \in symbols : \A u \in symbols :
                      \/ bit_lengths[t + 1] < bit_lengths[u + 1]
                      \/ bit_lengths[t + 1] = bit_lengths[u + 1] /\ t <= u
             l == bit_lengths[s + 1]
             shifted == IF prev = 0 THEN code ELSE code * (2 ^ (l - prev))
         IN (s :> [code |-> shifted, length |-> l])
                @@ ReferenceAssign(bit_lengths, symbols \ {s}, shifted + 1, l)

ReferenceCodes(bit_lengths) ==
    ReferenceAssign(bit_lengths,
                    {s \in 0..(Len(bit_lengths) - 1) : bit_lengths[s + 1] > 0}, 0, 0)

\* C17: for every length vector _generate_canonical_huffman_codes is the
\* reference assignment: the present symbols in ascending (length, symbol)
\* order from code 0, each taking the running code, which is then
\* incremented, and shifted left by l - l_prev when the length changes.
C17_CodesAreReferenceAssignment ==
    (ret.done /\ call.fn = "_generate_canonical_huffman_codes") =>
        LET reference == ReferenceCodes(call.args[1])
        IN /\ DOMAIN ret.value = DOMAIN reference
           /\ \A s \in DOMAIN reference : ret.value[s] = reference[s]

\* ------------------------------------------------------------------------
\* decompress_dpcm: C20 (SpecDpcm)
\* ------------------------------------------------------------------------
Clamp(x) == IF x < 0 THEN 0 ELSE IF x > 255 THEN 255 ELSE x

\* The prediction P_i (i >= 1, 0-based) from the outputs p before it.
Prediction(predictor, p, i) ==
    IF i = 1
    THEN p[1]
    ELSE CASE predictor = "previous" -> p[i]
           [] predictor = "average" -> (p[i] + p[i - 1]) \div 2
           [] predictor = "linear" -> 2 * p[i] - p[i - 1]

\* C20: for a non-empty input d, decompress_dpcm emits |d| bytes p with
\* p_0 = d_0 and p_i = clamp(P_i + d_i, 0, 255) for i >= 1, where P_i is
\* p_{i-1} ('previous'), floor((p_{i-1} + p_{i-2}) / 2) ('average') or
\* 2 p_{i-1} - p_{i-2} ('linear'), and P_1 = p_0 for every predictor, the
\* predictions being made from the clamped outputs; empty input fails.
C20_DpcmFollowsPredictor ==
    (ret.done /\ call.fn = "decompress_dpcm"
        /\ call.args[2] \in {"previous", "average", "linear"}) =>
        LET d == call.args[1]
            p == ret.value.out
        IN IF d = <<>>
           THEN ret.value.raised
           ELSE /\ ~ret.value.raised
                /\ Len(p) = Len(d)
                /\ p[1] = d[1]
                /\ \A i \in 1..(Len(d) - 1) :
                       p[i + 1] = Clamp(Prediction(call.args[2], p, i) + d[i + 1])

\* The 'average' predictor after a clamped output: 200, then 200 + 100
\* clamped to 255, then floor((255 + 200) / 2) + 1 = 228.
C20_Witness ==
    /\ ret.done
    /\ call.fn = "decompress_dpcm"
    /\ call.args = <<<<200, 100, 1>>, "average">>
    /\ ret.value.out = <<200, 255, 228>>

\* ------------------------------------------------------------------------
\* decompress_nibble_signed: C21 (SpecNibble)
\* ------------------------------------------------------------------------
\* The j-th nibble of d (j >= 1): the high nibble of a byte, then the low.
NibbleAt(d, j) ==
    LET b == d[(j + 1) \div 2]
    IN IF j % 2 = 1 THEN b \div 16 ELSE b % 16

\* The j-th little-endian 16-bit sample of out as a signed value.
Sample16(out, j) ==
    LET u == out[2 * j - 1] + 256 * out[2 * j]
    IN IF u >= 2 ^ 15 THEN u - 2 ^ 16 ELSE u

Saturate16(x) ==
    IF x > 2 ^ 15 - 1 THEN 2 ^ 15 - 1 ELSE IF x < -(2 ^ 15) THEN -(2 ^ 15) ELSE x

\* C21: decompress_nibble_signed never fails and emits 4 |d| bytes, one
\* little-endian 16-bit sample per nibble (high nibble of a byte first):
\* sample j is the saturation to [-32768, 32767] of sample j - 1 (0 before
\* the first) plus the nibble n as n if n <= 7, as n - 16 otherwise.
C21_NibbleSamplesSaturate ==
    (ret.done /\ call.fn \in {"decompress_nibble_signed", "try_nibble_signed"}) =>
        LET d == call.args[1]
            out == ret.value.out
        IN /\ ~ret.value.raised
           /\ Len(out) = 4 * Len(d)
           /\ \A j \in 1..(2 * Len(d)) :
                  LET n == NibbleAt(d, j)
                      acc == IF j = 1 THEN 0 ELSE Sample16(out, j - 1)
                  IN Sample16(out, j) = Saturate16(acc + IF n <= 7 THEN n ELSE n - 16)

\* 2341 bytes of 0x77 add up to 32774: the last two samples are 32767.
C21_Witness ==
    /\ ret.done
    /\ call.fn = "decompress_nibble_signed"
    /\ Len(call.args[1]) = 2341
    /\ \A i \in 1..2341 : call.args[1][i] = 119
    /\ Sample16(ret.value.out, 4681) = 32767
    /\ Sample16(ret.value.out, 4682) = 32767

\* ------------------------------------------------------------------------
\* decompress_wavelet_haar: C24, C29 (SpecWavelet)
\* ------------------------------------------------------------------------
\* The header fields of the input of the call and the bytes after them.
HaarHeight == call.args[1][1] + 256 * call.args[1][2]
HaarWidthField == call.args[1][3] + 256 * call.args[1][4]
HaarLevelCount == call.args[1][5]
HaarType == call.args[1][6]
HaarPayloadLen == Len(call.args[1]) - 6

\* The call ran on a header with 1 <= levels <= 5 and data_type u8 or i16
\* that is followed by at least height * width coefficients of that type.
WaveletCallWithCoefficients ==
    /\ ret.done
    /\ call.fn = "decompress_wavelet_haar"
    /\ HaarLevelCount \in 1..5
    /\ HaarType \in {1, 2}
    /\ HaarPayloadLen >= HaarHeight * HaarWidthField * HaarType

\* C24: for every 6-byte header with height >= 1, width >= 1,
\* 1 <= levels <= 5 and data_type u8 or i16, followed by at least
\* height * width coefficients of that type, decompress_wavelet_haar succeeds
\* and returns height * width samples of that type, whatever the relation
\* between height and width.
C24_WaveletSucceedsOnAnyShape ==
    (WaveletCallWithCoefficients /\ HaarHeight >= 1 /\ HaarWidthField >= 1) =>
        /\ ~ret.value.raised
        /\ Len(ret.value.out) = HaarHeight * HaarWidthField * HaarType

\* The call returned an output of height * width samples that are all 0.
WaveletReturnsZeros ==
    /\ ~ret.value.raised
    /\ Len(ret.value.out) = HaarHeight * HaarWidthField * HaarType
    /\ \A k \in 1..Len(ret.value.out) : ret.value.out[k] = 0

\* C29 as stated: for every input of at least 8 bytes whose header has
\* height = width, 1 <= levels <= 5 and data_type u8 or i16, with at least
\* height * width coefficients, decompress_wavelet_haar returns an output in
\* which every sample is 0.
C29_SquareGridDecodesToZeros ==
    (WaveletCallWithCoefficients /\ Len(call.args[1]) >= 8
        /\ HaarHeight = HaarWidthField) => WaveletReturnsZeros

\* C29 as amended: the same for height = width >= 1; a header with
\* height = width = 0 is rejected.
C29_NonEmptySquareGridDecodesToZeros ==
    (WaveletCallWithCoefficients /\ Len(call.args[1]) >= 8
        /\ HaarHeight = HaarWidthField) =>
        IF HaarHeight >= 1 THEN WaveletReturnsZeros ELSE ret.value.raised

\* A 2 x 2 grid of int16 coefficients that are all 32767, two levels: eight
\* zero bytes.
C29_Witness ==
    /\ ret.done
    /\ call.fn = "decompress_wavelet_haar"
    /\ call.args[1] = <<2, 0, 2, 0, 2, 2, 255, 127, 255, 127, 255, 127, 255, 127>>
    /\ ret.value.out = <<0, 0, 0, 0, 0, 0, 0, 0>>

\* ------------------------------------------------------------------------
\* ECG lead reconstruction: C25, C26, C30 (SpecEcg)
\* ------------------------------------------------------------------------
\* The signed 16-bit little-endian value at the 0-based offset of bytes.
Signed16At(bytes, offset) ==
    LET u == bytes[offset + 1] + 256 * bytes[offset + 2]
    IN IF u >= 2 ^ 15 THEN u - 2 ^ 16 ELSE u

\* The number of leads in the input layout of the call: the eight-lead
\* entry reads 8 packed leads, the other entries read 3 (packed, or
\* interleaved for the interleaved format).
InputLeads == IF call.fn = "ecg_leads_8lead" THEN 8 ELSE 3

\* Samples per lead of the input of the call.
SamplesPerLead == Len(call.args[1]) \div (2 * InputLeads)

\* Sample i of input lead k (both 0-based, leads in the standard order).
InputSample(k, i) ==
    IF call.fn = "ecg_leads_interleaved"
    THEN Signed16At(call.args[1], 2 * (i * InputLeads + k))
    ELSE Signed16At(call.args[1], 2 * (k * SamplesPerLead + i))

\* Sample i of lead k in an output of twelve leads of n samples each.
OutputSample(out, n, k, i) == Signed16At(out, 2 * (k * n + i))

\* C25: in every reconstruction the output has the twelve leads in the
\* standard order; a lead of the input layout has its input samples, and
\* the limb leads aVR, aVL, aVF, when the layout does not have them, are
\* sample by sample -(I + II)/2, I - II/2 and II - I/2 with the quotients
\* floored, clamped to [-32768, 32767].
C25_LimbLeadsFromIAndII ==
    (ret.done /\ call.fn \in EcgEntries /\ ~ret.value.raised) =>
        LET out == ret.value.out
            n == SamplesPerLead
        IN /\ Len(out) = 24 * n
           /\ \A i \in 0..(n - 1) :
                  LET I == InputSample(0, i)
                      II == InputSample(1, i)
                  IN /\ \A k \in 0..(InputLeads - 1) :
                            OutputSample(out, n, k, i) = InputSample(k, i)
                     /\ InputLeads = 3 =>
                            /\ OutputSample(out, n, 3, i) = Saturate16((-(I + II)) \div 2)
                            /\ OutputSample(out, n, 4, i) = Saturate16(I - (II \div 2))
                            /\ OutputSample(out, n, 5, i) = Saturate16(II - (I \div 2))

\* One sample per lead, I = 32767 and II = -32768: aVR is 0, aVL is 49151
\* clamped to 32767, aVF is -49151 clamped to -32768.
C25_Witness ==
    /\ ret.done
    /\ call.fn = "ecg_leads_3lead"
    /\ call.args[1] = <<255, 127, 0, 128, 100, 0>>
    /\ SubSeq(ret.value.out, 1, 12) = <<255, 127, 0, 128, 100, 0, 0, 0, 255, 127, 0, 128>>

\* An input of zero samples as long as the longest drawn input.
ZeroInput == Repeat(0, 2 * MaxEcgSamples + 1)

\* What the entry of the call returns on the zero input: there lead II is
\* 0, so a filled lead is its additive term alone.
ZeroOutput ==
    CASE call.fn = "ecg_leads" -> decompress_ecg_leads(ZeroInput).out
      [] call.fn = "ecg_leads_3lead" -> _decompress_ecg_leads_3lead(ZeroInput).out
      [] call.fn = "ecg_leads_8lead" -> _decompress_ecg_leads_8lead(ZeroInput).out
      [] call.fn = "ecg_leads_interleaved" ->
             _decompress_ecg_leads_interleaved(ZeroInput).out

\* The additive term of lead k at sample i.
AdditiveTerm(k, i) ==
    OutputSample(ZeroOutput, Len(ZeroInput) \div (2 * InputLeads), k, i)

\* C26: a precordial lead V1..V6 that the input layout does not have (all
\* six for a 3-lead input, V3..V6 for an 8-lead input) is II_i / 3, floored,
\* plus a term that depends only on the lead and on i, in the 3-lead and in
\* the 8-lead reconstruction alike.
C26_PrecordialBaseIsThirdOfII ==
    (ret.done /\ call.fn \in EcgEntries /\ ~ret.value.raised) =>
        \A i \in 0..(SamplesPerLead - 1), k \in 6..11 :
            k >= InputLeads =>
                OutputSample(ret.value.out, SamplesPerLead, k, i)
                    = Saturate16((InputSample(1, i) \div 3) + AdditiveTerm(k, i))

\* C30: on an input of at least 12 bytes ecg_leads returns exactly what
\* ecg_leads_3lead returns, which is not empty; on a shorter input it
\* fails.
C30_EcgLeadsIsThreeLead ==
    (ret.done /\ call.fn = "ecg_leads") =>
        IF Len(call.args[1]) >= 12
        THEN /\ ~ret.value.raised
             /\ Len(ret.value.out) > 0
             /\ ret.value = _decompress_ecg_leads_3lead(call.args[1])
        ELSE ret.value.raised

\* An input of 16 samples, which the 8-lead format would decode as well:
\* ecg_leads returns the 3-lead reconstruction, five samples per lead.
C30_Witness ==
    /\ ret.done
    /\ call.fn = "ecg_leads"
    /\ Len(call.args[1]) = 32
    /\ ~ret.value.raised
    /\ Len(ret.value.out) = 120
    /\ ret.value.out # _decompress_ecg_leads_8lead(call.args[1]).out

\* ------------------------------------------------------------------------
\* The bit-stream decode loops: C27 (SpecDecodeLoop)
\* ------------------------------------------------------------------------
\* The bits of the blob that read_bit has returned: the bytes loaded before
\* the current one, and bit_pos bits of the current one.
BitsConsumed(self) ==
    IF self.bit_pos = 0 THEN 8 * self.pos ELSE 8 * (self.pos - 1) + self.bit_pos

\* The decoder is at the test of its loop after an iteration, the loop not
\* left.
AfterIteration == last.op = "while" /\ last.n >= 1 /\ ~ret.done

\* C27: in decompress_rice and in the symbol-matching loops of the three
\* Huffman decoders every iteration that does not leave the loop consumes
\* at least one unread bit of the stream, the iterations are at most
\* 8 |bitstream|, and the loop is left on every input, also when a matched
\* code is longer than the bits that remain.
C27_DecodeLoopsTerminate ==
    /\ [](AfterIteration =>
              /\ BitsConsumed(bitstream) >= BitsConsumed(before) + 1
              /\ BitsConsumed(bitstream) <= 8 * Len(bitstream.data))
    /\ [](last.n <= 8 * Len(bitstream.data))
    /\ <>(ret.done)

\* A code of three zero bits matched on the only readable bit of a 1-byte
\* blob and the two zeros returned past it; the loop then ends.
C27_Witness ==
    /\ call.fn = "huffman_canonical"
    /\ call.args[1] = <<0>>
    /\ call.items = <<[symbol |-> 0, code |-> 0, length |-> 3]>>
    /\ last.n = 1
    /\ BitsConsumed(before) = 0
    /\ BitsConsumed(bitstream) = 1
    /\ ret.done
    /\ ret.value.out = <<0>>

\* ------------------------------------------------------------------------
\* decompress_lzw: C28 (SpecLzw)
\* ------------------------------------------------------------------------
\* The keys of the dictionary that decompress_lzw has looked up at its end:
\* the codes of the arm `k in dictionary`.
LzwLookups(bytes) ==
    {Tail(bytes)[i] : i \in {j \in 1..(Len(bytes) - 1) : lzw_run(bytes).branches[j] = "table"}}

\* C28: for every byte sequence decompress_lzw does not fail and returns
\* its input unchanged; every code takes the arm `k in dictionary`, never
\* `k == dict_size` and never the invalid-code failure, and no key of 256
\* or above is looked up although one phrase per code is added there.
C28_LzwIsIdentity ==
    (ret.done /\ call.fn = "decompress_lzw") =>
        /\ ret.value = Returns(call.args[1])
        /\ call.args[1] # <<>> =>
              LET state == lzw_run(call.args[1])
              IN /\ state.branches = Repeat("table", Len(call.args[1]) - 1)
                 /\ \A k \in LzwLookups(call.args[1]) : k < 2 ^ 8
                 /\ state.dict_size = 2 ^ 8 + Len(call.args[1]) - 1
                 /\ DOMAIN state.dictionary = 0..(state.dict_size - 1)

\* Three bytes with the code 255 and a repeat, which a real LZW stream
\* would decode with the phrase at key 256: they come back unchanged, two
\* phrases added.
C28_Witness ==
    /\ ret.done
    /\ call.fn = "decompress_lzw"
    /\ call.args[1] = <<65, 255, 65>>
    /\ ret.value = Returns(<<65, 255, 65>>)
    /\ lzw_run(call.args[1]).dict_size = 2 ^ 8 + 2
    /\ lzw_run(call.args[1]).dictionary[2 ^ 8] = <<65, 255>>

====
